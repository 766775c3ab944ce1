-------------------------- MODULE ToolchainWrapper --------------------------
(***************************************************************************)
(* toolchain-wrapper.c: what stands in front of the cross compiler.  It    *)
(* builds an argument array of a size fixed beforehand, adds its defaults  *)
(* unless the command line has its own, and looks for paths of the build   *)
(* machine.  An argument is an option, a path, or both in one word; what   *)
(* it has not of the two is "none".                                        *)
(***************************************************************************)
EXTENDS Integers, Sequences

CONSTANTS
    unsafe_opts,         \* the options that take a path, in the order of the table
    Unsafe,              \* the paths of the build machine
    Arguments,           \* the words a command line is made of
    MaxArgs

Word(o, p) == [opt |-> o, path |-> p]
predef_args == <<"path", "--sysroot", "sysroot">>

VARIABLES
    argv,
    br,                  \* which of BR_CCACHE, BR_FLOAT_ABI, BR_ARCH, BR_CPU are defined
    paranoid, no_ccache, \* from the environment
    args,
    pc, i, k,            \* the word and the option of the table it is compared with
    reported,            \* the words whose path was reported
    exec

vars == <<argv, br, paranoid, no_ccache, args, pc, i, k, reported, exec>>
fixed == <<argv, br, paranoid, no_ccache>>

argc == Len(argv) + 1
Has(opts) == \E n \in DOMAIN argv : argv[n].opt \in opts

\* Mutant of EXCLUSIVE_ARGS: -march= and -mcpu= are thought to exclude each other.
EXCLUSIVE_ARGS_Two == 2

EXCLUSIVE_ARGS == 3
\* In pointers; sizeof(predef_args) has one more with BR_CCACHE.
Size == Len(predef_args) + (IF "ccache" \in br THEN 1 ELSE 0) + argc + EXCLUSIVE_ARGS

Init ==
    /\ argv \in UNION {[1 .. n -> Arguments] : n \in 0 .. MaxArgs}
    /\ br \in SUBSET {"ccache", "float", "arch", "cpu"}
    /\ paranoid \in BOOLEAN /\ no_ccache \in BOOLEAN
    /\ args = <<>> /\ pc = "predef" /\ i = 1 /\ k = 1 /\ reported = {} /\ exec = <<>>

If(b, arg) == IF b THEN <<arg>> ELSE <<>>
Predefined ==
    /\ pc = "predef" /\ pc' = "scan"
    /\ args' = If("ccache" \in br, "ccache") \o predef_args
               \o If("float" \in br /\ ~Has({"-mfloat-abi=", "-msoft-float", "-mhard-float"}), "-mfloat-abi=")
               \o If("arch" \in br /\ ~Has({"-march=", "-mtune=", "-mcpu="}), "-march=")
               \o If("cpu" \in br /\ ~Has({"-march=", "-mtune=", "-mcpu="}), "-mcpu=")
    /\ UNCHANGED <<fixed, i, k, reported, exec>>

Scanning == pc = "scan" /\ i < argc
Matches == k <= Len(unsafe_opts) /\ argv[i].opt = unsafe_opts[k]

Check(n) ==
    /\ reported' = reported \cup (IF argv[n].path \in Unsafe THEN {n} ELSE {})
    /\ pc' = IF argv[n].path \in Unsafe /\ paranoid THEN "error" ELSE "scan"
SkipOption ==
    /\ Scanning /\ ~Matches
    /\ IF k < Len(unsafe_opts) THEN k' = k + 1 /\ UNCHANGED i ELSE k' = 1 /\ i' = i + 1
    /\ UNCHANGED <<fixed, args, pc, reported, exec>>
\* The path is the next word; that is compared with the rest of the table too.
SeparatePath ==
    /\ Scanning /\ Matches /\ argv[i].path = "none"
    /\ i' = i + 1 /\ k' = k + 1
    /\ IF i + 1 = argc THEN UNCHANGED <<pc, reported>> ELSE Check(i + 1)
    /\ UNCHANGED <<fixed, args, exec>>
JoinedPath ==
    /\ Scanning /\ Matches /\ argv[i].path # "none"
    /\ Check(i) /\ k' = k + 1
    /\ UNCHANGED <<fixed, args, i, exec>>

Exec ==
    /\ pc = "scan" /\ i >= argc /\ pc' = "exec"
    /\ args' = args \o argv \o <<"NULL">>
    /\ exec' = IF "ccache" \in br /\ no_ccache THEN Tail(args') ELSE args'
    /\ UNCHANGED <<fixed, i, k, reported>>

Next == Predefined \/ SkipOption \/ SeparatePath \/ JoinedPath \/ Exec

-----------------------------------------------------------------------------
IsOption(w) == \E n \in DOMAIN unsafe_opts : w.opt = unsafe_opts[n]
\* Every option that stands alone is followed by its path.
WellFormed ==
    \A n \in DOMAIN argv : IsOption(argv[n]) /\ argv[n].path = "none" => n < Len(argv) /\ argv[n + 1].opt = "none"
\* The words by which the compiler gets a path of the build machine.
UnsafeWords ==
    {n \in DOMAIN argv : /\ argv[n].path \in Unsafe
                         /\ \/ IsOption(argv[n])
                            \/ n > 1 /\ IsOption(argv[n - 1]) /\ argv[n - 1].path = "none"}
Default(opt) == \E n \in 1 .. Len(exec) - Len(argv) - 1 : exec[n] = opt

\* The array is large enough; the compiler, or ccache with it, gets every word
\* of the command line in order, and never both an own and a default ABI or CPU;
\* all its unsafe paths were reported, and a paranoid build got none of them.
WrapperIsSound ==
    /\ Len(args) <= Size
    /\ pc = "exec" =>
          /\ exec[1] = (IF "ccache" \in br /\ ~no_ccache THEN "ccache" ELSE "path")
          /\ SubSeq(exec, Len(exec) - Len(argv), Len(exec) - 1) = argv
          /\ Has({"-mfloat-abi=", "-msoft-float"}) => ~Default("-mfloat-abi=")
          /\ Has({"-mcpu=", "-march="}) => ~Default("-march=") /\ ~Default("-mcpu=")
    /\ WellFormed =>
          /\ pc = "exec" => reported = UnsafeWords /\ (paranoid => UnsafeWords = {})
          /\ pc = "error" => reported # {} /\ reported \subseteq UnsafeWords
=============================================================================
