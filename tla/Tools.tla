-------------------------------- MODULE Tools --------------------------------
(***************************************************************************)
(* Programs that share nothing, in one instance: every behaviour is one of *)
(* a single component, the others stay in an initial state.  The component *)
(* that is extended has its own names, the others have theirs behind the   *)
(* name of the instance.                                                   *)
(***************************************************************************)
EXTENDS InputBox

CONSTANTS
    Components,          \* the programs that are looked at
    \* lxdialog/menubox.c
    MenuItems, MenuRows, HotKeys, MenuCalls,
    \* lxdialog/checklist.c
    ListItems, ListHeight, Letters, Comments,
    \* lxdialog/textbox.c
    Texts, PagerHeight, PagerMargin, JUMP_NB, PagerOpens, NL,
    \* nconf.gui.c
    prompt_width, MaxLen,
    \* conf_write_autoconf()
    Syms, SymType, ConfigTexts, NoValue, ConfigEdits,
    \* toolchain-wrapper.c
    unsafe_opts, Unsafe, Arguments, MaxArgs,
    \* makedevs.c
    DeviceLines, MaxLines, TargetFiles, Ids, Limit

\* The window is at least as wide as the title, which no caller leaves empty.
ASSUME PromptAssumption == prompt_width \in Nat \ {0}
\* The numbers of items and of lines of the menu's window.
ASSUME MenuAssumption == MenuItems \in Nat /\ MenuRows \in Nat
\* Items are numbered from 0, and each has a first letter.
ASSUME ListAssumption ==
    /\ ListItems \in Nat /\ ListHeight \in Nat
    /\ Comments \subseteq Nat /\ Letters \in Seq(STRING) /\ Len(Letters) >= ListItems
\* No option of the table and no path of the build machine is the empty word.
ASSUME OptionsAssumption ==
    unsafe_opts \in Seq(STRING) /\ (\A n \in DOMAIN unsafe_opts : unsafe_opts[n] # "none") /\ "none" \notin Unsafe
ASSUME ArgumentsAssumption == MaxArgs \in Nat
\* search_conf() appends the entries of a text one after the other.
ASSUME PagerAssumption ==
    /\ PagerHeight \in Nat /\ PagerMargin \in Nat /\ JUMP_NB \in Nat \ {0}
    /\ \A t \in Texts :
          /\ t.text \in Seq(STRING) /\ t.entries \in Seq(Nat)
          /\ \A e, f \in DOMAIN t.entries : e < f => t.entries[e] <= t.entries[f]
\* Fields of a table are unsigned, and no line is about the root directory.
ASSUME DevicesAssumption ==
    /\ MaxLines \in Nat /\ <<>> \notin TargetFiles
    /\ \A l \in DeviceLines : l.kind = "entry" =>
          l.name \in Seq(STRING \X Int) /\ l.name # <<>> /\ l.start \in Nat /\ l.count \in Nat

VARIABLES
    component,
    \* lxdialog/menubox.c
    m_open, m_count, rows, selected, s_scroll, m_scroll, m_choice, first_item, m_button, m_shown,
    m_arrows, m_lit, m_stale, picked, last, calls,
    \* lxdialog/checklist.c
    c_open, c_count, list_height, c_value, active, c_scroll, c_choice, c_button, c_shown, c_arrows,
    c_lit, c_stale, result,
    \* lxdialog/textbox.c
    t_open, doc, search, boxh, margin, page, begin_reached, end_reached, page_length, top, header,
    keys, vscroll, target, opens,
    \* nconf.gui.c
    n_open, n_result, result_len, cursor_position, cursor_form_win, form_win,
    \* conf_write_autoconf()
    config, file, tmp, fresh, a_pc, todo, old, touched, seen, edits,
    \* toolchain-wrapper.c
    argv, br, paranoid, no_ccache, args, w_pc, w_i, w_k, reported, exec,
    \* makedevs.c
    table, linenum, extended, broken, fs, full_name, user, group, wrong, d_pc

Menu == INSTANCE MenuBox WITH
    MaxItems <- MenuItems, MaxRows <- MenuRows, MaxCalls <- MenuCalls,
    open <- m_open, count <- m_count, scroll <- m_scroll, choice <- m_choice, button <- m_button,
    shown <- m_shown, arrows <- m_arrows, lit <- m_lit, stale <- m_stale
List == INSTANCE CheckList WITH
    MaxItems <- ListItems, MaxHeight <- ListHeight,
    open <- c_open, count <- c_count, value <- c_value, scroll <- c_scroll, choice <- c_choice,
    button <- c_button, shown <- c_shown, arrows <- c_arrows, lit <- c_lit, stale <- c_stale
Pager == INSTANCE TextBox WITH
    MaxHeight <- PagerHeight, MaxMargin <- PagerMargin, MaxOpens <- PagerOpens, open <- t_open
NInput == INSTANCE NInputBox WITH open <- n_open, result <- n_result
Autoconf == INSTANCE KAutoconf WITH
    Type <- SymType, Strings <- ConfigTexts, MaxEdits <- ConfigEdits, pc <- a_pc
Wrapper == INSTANCE ToolchainWrapper WITH pc <- w_pc, i <- w_i, k <- w_k
Devices == INSTANCE MakeDevs WITH
    Lines <- DeviceLines, Files <- TargetFiles, reported <- wrong, pc <- d_pc

inputVars == vars
menuVars == <<m_open, m_count, rows, selected, s_scroll, m_scroll, m_choice, first_item, m_button,
              m_shown, m_arrows, m_lit, m_stale, picked, last, calls>>
listVars == <<c_open, c_count, list_height, c_value, active, c_scroll, c_choice, c_button, c_shown,
              c_arrows, c_lit, c_stale, result>>
pagerVars == <<t_open, doc, search, boxh, margin, page, begin_reached, end_reached, page_length, top,
               header, keys, vscroll, target, opens>>
ninputVars == <<n_open, n_result, result_len, cursor_position, cursor_form_win, form_win>>
autoVars == <<config, file, tmp, fresh, a_pc, todo, old, touched, seen, edits>>
wrapperVars == <<argv, br, paranoid, no_ccache, args, w_pc, w_i, w_k, reported, exec>>
deviceVars == <<table, linenum, extended, broken, fs, full_name, user, group, wrong, d_pc>>
allVars ==
    <<component, inputVars, menuVars, listVars, pagerVars, ninputVars, autoVars, wrapperVars, deviceVars>>

InputIdle == value = <<>> /\ Init
ListIdle ==
    /\ c_open = "menu" /\ c_count = 2 /\ list_height = 1 /\ c_value = 1 /\ active = 1 /\ c_scroll = 0
    /\ c_choice = 0 /\ c_button = 0 /\ c_shown = <<>> /\ c_arrows = <<FALSE, FALSE>> /\ c_lit = 0
    /\ c_stale = {} /\ result = <<0, List!NoItem>>
PagerIdle ==
    /\ t_open = FALSE /\ doc = [text |-> <<"c">>, entries |-> <<>>] /\ search = FALSE /\ boxh = 1 /\ margin = 1
    /\ page = 0 /\ begin_reached = TRUE /\ end_reached = FALSE /\ page_length = 0 /\ top = 0
    /\ header = <<>> /\ keys = {} /\ vscroll = 0 /\ target = 0 /\ opens = 0
NInputIdle == result_len = 1 /\ NInput!Init
AutoIdle == config = Autoconf!Empty /\ Autoconf!Init
WrapperIdle == argv = <<>> /\ br = {} /\ paranoid = FALSE /\ no_ccache = FALSE /\ Wrapper!Init
DevicesIdle ==
    /\ table = <<>> /\ linenum = 1 /\ extended = FALSE /\ broken = <<<<>>, "">> /\ fs = <<>>
    /\ full_name = <<>> /\ user = "" /\ group = "" /\ wrong = {} /\ d_pc = "read"

ToolsInit ==
    /\ component \in Components
    /\ IF component = "input" THEN Init ELSE InputIdle
    /\ Menu!Init
    /\ IF component = "list" THEN List!Init ELSE ListIdle
    /\ IF component = "pager" THEN Pager!Init ELSE PagerIdle
    /\ IF component = "ninput" THEN NInput!Init ELSE NInputIdle
    /\ IF component = "auto" THEN Autoconf!Init ELSE AutoIdle
    /\ IF component = "wrapper" THEN Wrapper!Init ELSE WrapperIdle
    /\ IF component = "devices" THEN Devices!Init ELSE DevicesIdle

InputNext ==
    /\ Next
    /\ UNCHANGED <<menuVars, listVars, pagerVars, ninputVars, autoVars, wrapperVars, deviceVars>>
MenuNext ==
    /\ Menu!Next
    /\ UNCHANGED <<inputVars, listVars, pagerVars, ninputVars, autoVars, wrapperVars, deviceVars>>
ListNext ==
    /\ List!Next
    /\ UNCHANGED <<inputVars, menuVars, pagerVars, ninputVars, autoVars, wrapperVars, deviceVars>>
PagerNext ==
    /\ Pager!Next
    /\ UNCHANGED <<inputVars, menuVars, listVars, ninputVars, autoVars, wrapperVars, deviceVars>>
NInputNext ==
    /\ NInput!Next
    /\ UNCHANGED <<inputVars, menuVars, listVars, pagerVars, autoVars, wrapperVars, deviceVars>>
AutoNext ==
    /\ Autoconf!Next
    /\ UNCHANGED <<inputVars, menuVars, listVars, pagerVars, ninputVars, wrapperVars, deviceVars>>
WrapperNext ==
    /\ Wrapper!Next
    /\ UNCHANGED <<inputVars, menuVars, listVars, pagerVars, ninputVars, autoVars, deviceVars>>
DevicesNext ==
    /\ Devices!Next
    /\ UNCHANGED <<inputVars, menuVars, listVars, pagerVars, ninputVars, autoVars, wrapperVars>>

ToolsNext ==
    /\ UNCHANGED component
    /\ \/ component = "input" /\ InputNext
       \/ component = "menu" /\ MenuNext
       \/ component = "list" /\ ListNext
       \/ component = "pager" /\ PagerNext
       \/ component = "ninput" /\ NInputNext
       \/ component = "auto" /\ AutoNext
       \/ component = "wrapper" /\ WrapperNext
       \/ component = "devices" /\ DevicesNext

ToolsSpec == ToolsInit /\ [][ToolsNext]_allVars

-----------------------------------------------------------------------------
\* What the user types is what is shown, in menuconfig (lxdialog/inputbox.c) and
\* in nconfig (nconf.gui.c).
InputLinesAreTrue == LineIsTrue /\ NInput!WindowIsTrue

\* The build sees the configuration. (conf_write_autoconf)
BuildSeesConfig == Autoconf!BuildSeesConfig
\* The array is large enough and the command line is the right one.
\* (toolchain-wrapper.c)
WrapperIsSound == Wrapper!WrapperIsSound
\* What the table says holds for every file, but for the lines that were
\* reported. (makedevs.c)
TableIsApplied == Devices!TableIsApplied

\* The screens of lxdialog: menubox.c, checklist.c, textbox.c.
MenuIsTrue == Menu!MenuIsTrue
ListIsTrue == List!ListIsTrue
PagerIsTrue == Pager!PagerIsTrue
=============================================================================
