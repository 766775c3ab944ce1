------------------------------ MODULE MCKString ------------------------------
\* KString with one string that is asked for when SHOW is on and whose default
\* depends on ALT, and a .config that make defconfig has written.
EXTENDS KString
MCEntries == <<"NAME">>
MCType == [NAME |-> "string"]
MCPrompt == [NAME |-> {"SHOW"}]
MCDefaults ==
    [NAME |-> <<[cond |-> {"ALT"}, from |-> NoEntry, text |-> <<"a">>],
                [cond |-> {}, from |-> NoEntry, text |-> <<"b">>]>>]
MCRanges == [NAME |-> <<>>]
MCTyped == [NAME |-> {<<"a">>, <<"b">>, <<"a", "b">>}]
MCFiles == {[on |-> {}, line |-> [NAME |-> <<"q", "b", "q">>]]}
==============================================================================
