------------------------------- MODULE Config -------------------------------
(***************************************************************************)
(* The configuration reader (conf.cpp) and the part of the query set-up    *)
(* that consumes it (query.cpp, pmmg.cpp): a file is read line by line by  *)
(* a state machine whose status survives the end of a line inside a list,  *)
(* and the values end up in entries that are a variant of a scalar and an  *)
(* array, next to the flags m_is_assigned and m_is_list.                   *)
(*                                                                         *)
(* A line is a sequence of tokens: white space, punctuation, and the       *)
(* alphanumeric words.  What a word means to an entry of some type is      *)
(* Convert.  The bounds are the set of Lines and MaxLines.                 *)
(***************************************************************************)
EXTENDS Integers, Sequences, FiniteSetsExt

CONSTANTS
    Declared,       \* the entries of config_list.h: key -> attributes
    Lines,          \* the lines a file is made of, as token sequences
    MaxLines,       \* the lines of a file
    ListCapacity    \* the capacity of a fresh list, 16 in the code

ASSUME ConfigAssumption ==
    /\ ListCapacity \in Nat \ {0}
    /\ MaxLines \in Nat
    /\ \A l \in Lines : l \in Seq(STRING) /\ l # << >>

\* What config_list.h says of the entries the set-up reads, and of those that
\* others depend on: switches with a default.  "none" and "throws" stand for
\* the absence of a value and are none.
ASSUME DeclaredAssumption ==
    /\ {"out_limit", "CMG.enabled", "CMG.epsilon", "CMG.use_update_new"}
            \subseteq DOMAIN Declared
    /\ \A k \in DOMAIN Declared :
          /\ Declared[k].list \in BOOLEAN
          /\ Declared[k].default # "throws"
          /\ LET d == Declared[k].needs
             IN  d \in DOMAIN Declared =>
                    Declared[d].default # "none" /\ ~Declared[d].list
    /\ \A k \in {"out_limit", "CMG.epsilon", "CMG.use_update_new"} :
          Declared[k].type # "string"
    /\ \A k \in {"out_limit", "CMG.enabled", "CMG.use_update_new"} :
          Declared[k].default # "none"
    /\ Declared["CMG.epsilon"].needs = "CMG.enabled"
    /\ ~Declared["out_limit"].list

VARIABLES
    entries,    \* m_entry_map: key -> the mutable part of a ConfigEntry
    status,     \* parsing_ctx.m_status
    saved,      \* parsing_ctx.m_saved_entry
    line,       \* the line that is parsed, << >> between two lines
    p0,         \* the position in it
    read,       \* the number of lines read
    ok,         \* no line was refused so far
    outcome,    \* how far main has come
    sketches,   \* the sketches created from the configuration
    given,      \* history: what the file last said of each key, completely
    pending     \* history: the values of the list that is being read

vars == <<entries, status, saved, line, p0, read, ok, outcome, sketches,
          given, pending>>
history == <<given, pending>>

Keys == DOMAIN Declared
NoKey == "none"
InList == {"IN_LIST_VALUE", "IN_LIST_AFTER_VALUE"}

-----------------------------------------------------------------------------
(* Entries *)

Scalar(v) == [tag |-> "scalar", at |-> v]
Array(a) == [tag |-> "list", at |-> a]

Default(k) == Declared[k].default

NewEntry(k) ==
    [assigned |-> Default(k) # "none", isList |-> FALSE, length |-> 0,
     value |-> IF Default(k) = "none" THEN [tag |-> "untouched"]
               ELSE Scalar(Default(k))]

\* A word as a value of the entry's type: 0 is success, 1 a malformed
\* value, 2 a value out of range, 4 a missing value.  The stream reads the
\* longest prefix that is a value and the rest of the word is ignored.
Convert(k, word) ==
    CASE Declared[k].type = "string" -> [code |-> 0, val |-> word]
      [] word = << >> -> [code |-> 4]
      [] Declared[k].type = "boolean" ->
            IF word[1] \in {"true", "false"}
            THEN [code |-> 0, val |-> word[1]] ELSE [code |-> 1]
      [] OTHER ->
            IF word[1] \notin {"0", "5", "7"} THEN [code |-> 1]
            ELSE IF Declared[k].ranged /\ word[1] = "0" THEN [code |-> 2]
            ELSE [code |-> 0, val |-> word[1]]

\* std::get of the wrong alternative: bad_variant_access, which nobody
\* catches.
ClearThrows(e) == e.isList /\ e.value.tag # "list"

ClearEntryKeepsFlag(e) == [e EXCEPT !.assigned = FALSE]
ClearEntry(e) == [e EXCEPT !.assigned = FALSE, !.isList = FALSE]

InitEntryList(e) ==
    [e EXCEPT !.length = 0, !.isList = TRUE,
              !.value = Array([i \in 1..ListCapacity |-> "raw"])]

\* A list that is assigned is overwritten in place, any other is allocated.
StartListKeepsLength(e) ==
    IF e.assigned /\ e.isList THEN e ELSE InitEntryList(e)
StartList(e) ==
    IF e.assigned /\ e.isList THEN [e EXCEPT !.length = 0]
    ELSE InitEntryList(e)

DoubledLosesOld(e) ==
    IF e.length < ListCapacity \/ e.length < Len(e.value.at) THEN e
    ELSE [e EXCEPT !.value = Array([i \in 1..2 * Len(@.at) |-> "raw"])]
Doubled(e) ==
    IF e.length < ListCapacity \/ e.length < Len(e.value.at) THEN e
    ELSE [e EXCEPT !.value = Array([i \in 1..2 * Len(@.at) |->
             IF i <= e.length THEN @.at[i] ELSE "raw"])]

-----------------------------------------------------------------------------
(* Reading back: list_length and get *)

ListLength(e) ==
    IF ~e.assigned THEN -3 ELSE IF e.isList THEN e.length ELSE -1

\* idx counts from 0 as in the code; -1 asks for a scalar.
Get(e, idx) ==
    IF \/ ~e.assigned
       \/ e.isList /\ idx \notin 0..(e.length - 1)
       \/ ~e.isList /\ idx # -1
    THEN "none"
    ELSE IF e.value.tag # (IF e.isList THEN "list" ELSE "scalar")
    THEN "throws"
    ELSE IF e.isList THEN e.value.at[idx + 1] ELSE e.value.at

\* Everything a caller can learn about a key.
Reading(e) ==
    CASE ListLength(e) = -3 -> [kind |-> "unset"]
      [] ListLength(e) = -1 -> [kind |-> "scalar", at |-> Get(e, -1)]
      [] OTHER -> [kind |-> "list",
                   at |-> [i \in 1..ListLength(e) |-> Get(e, i - 1)]]

-----------------------------------------------------------------------------
(* Cutting a line *)

From(s, p, Stop) ==
    Min({q \in p..Len(s) : s[q] \in Stop} \cup {Len(s) + 1})

SkipWs(s, p) ==
    LET q == Min({r \in p..Len(s) : s[r] # " "} \cup {Len(s) + 1})
    IN  IF q <= Len(s) /\ s[q] = "#" THEN Len(s) + 1 ELSE q

Punctuation == {" ", "#", "=", "[", "]", ",", "\""}

\* The cursor after skip_ws, where every round of the loop starts.
Cursor == SkipWs(line, p0)
AtEnd == Cursor > Len(line)
Here == IF AtEnd THEN "end" ELSE line[Cursor]

\* parsing_parse_value_string: the word, where it ends, and whether the
\* status changes.  An escaped quote is never stepped over: the loop does
\* not end.
ValueHere ==
    LET stop == {" ", "#"} \cup
                (IF status = "IN_LIST_VALUE" THEN {"]", ","} ELSE {})
        close == From(line, Cursor + 1, {"\"", "\\\""})
        to == From(line, Cursor, stop)
    IN  CASE AtEnd -> [word |-> << >>, p |-> Cursor, status |-> status]
          [] Here = "\"" ->
                [word |-> SubSeq(line, Cursor + 1, close - 1),
                 p |-> close + 1,
                 status |-> IF close > Len(line) THEN "ERROR"
                            ELSE IF line[close] = "\\\"" THEN "SPINNING"
                            ELSE status]
          [] Here = "[" ->
                [word |-> << >>, p |-> Cursor + 1,
                 status |-> IF status = "AFTER_EQ" THEN "IN_LIST_BEG"
                            ELSE "ERROR"]
          [] OTHER -> [word |-> SubSeq(line, Cursor, to - 1), p |-> to,
                       status |-> status]

\* The loop of parse_line goes on with status s at position p.
GoesOnAnyway(s, p) == s \notin {"DONE", "ERROR", "SPINNING"}
GoesOn(s, p) ==
    /\ s \notin {"DONE", "ERROR", "SPINNING"}
    /\ s \in InList => p <= Len(line)

\* The end of a round: the line is left when the loop does not go on.
Goto(s, p) ==
    /\ status' = s
    /\ line' = IF GoesOn(s, p) \/ s = "SPINNING" THEN line ELSE << >>
    /\ p0' = IF GoesOn(s, p) \/ s = "SPINNING" THEN p ELSE 1
    /\ ok' = (ok /\ s # "ERROR")

-----------------------------------------------------------------------------
Init ==
    /\ entries = [k \in Keys |-> NewEntry(k)]
    /\ status = "DONE"
    /\ saved = NoKey
    /\ line = << >>
    /\ p0 = 1
    /\ read = 0
    /\ ok = TRUE
    /\ outcome = "reading"
    /\ sketches = << >>
    /\ given = [k \in Keys |-> IF Default(k) = "none" THEN [kind |-> "unset"]
                               ELSE [kind |-> "scalar", at |-> Default(k)]]
    /\ pending = << >>

InLine(s) == outcome = "reading" /\ line # << >> /\ status = s

\* parse_file takes the next line; after an error or a complete line the
\* status starts again.
NextLine ==
    /\ outcome = "reading" /\ line = << >> /\ read < MaxLines
    /\ \E l \in Lines : line' = l
    /\ status' = IF status \in {"DONE", "ERROR"} THEN "INIT" ELSE status
    /\ p0' = 1
    /\ read' = read + 1
    /\ UNCHANGED <<entries, saved, ok, outcome, sketches, history>>

Kept == UNCHANGED <<read, sketches>>

\* INIT: an empty line, an unknown variable, or a key.
ParseKey ==
    /\ InLine("INIT")
    /\ LET to == From(line, Cursor, Punctuation)
           word == SubSeq(line, Cursor, to - 1)
       IN  IF Len(word) = 1 /\ word[1] \in Keys
           THEN saved' = word[1] /\ Goto("AFTER_KEY", to)
           ELSE Goto("DONE", to) /\ UNCHANGED saved
    /\ UNCHANGED <<entries, outcome, history>> /\ Kept

ParseEq ==
    /\ InLine("AFTER_KEY")
    /\ IF Here = "=" THEN Goto("AFTER_EQ", Cursor + 1)
                     ELSE Goto("ERROR", Cursor)
    /\ UNCHANGED <<entries, saved, outcome, history>> /\ Kept

\* AFTER_EQ: an opening bracket, or one word.  An assigned entry is cleared
\* before the word is converted, which throws when the flag says list and
\* the variant says scalar.
ParseScalar ==
    /\ InLine("AFTER_EQ")
    /\ LET v == ValueHere
           e == entries[saved]
           e1 == IF e.assigned THEN ClearEntry(e) ELSE e
           c == Convert(saved, v.word)
       IN  IF v.status # "AFTER_EQ"
           THEN /\ Goto(v.status, v.p)
                /\ pending' = << >>
                /\ UNCHANGED <<entries, outcome, given>>
           ELSE IF e.assigned /\ ClearThrows(e)
           THEN /\ outcome' = "threw"
                /\ UNCHANGED <<entries, status, line, p0, ok, history>>
           ELSE IF c.code = 0
           THEN /\ entries' = [entries EXCEPT ![saved] =
                        [e1 EXCEPT !.value = Scalar(c.val), !.assigned = TRUE]]
                /\ given' = [given EXCEPT ![saved] =
                        [kind |-> "scalar", at |-> c.val]]
                /\ Goto("AFTER_VALUE", v.p)
                /\ UNCHANGED <<outcome, pending>>
           ELSE /\ entries' = [entries EXCEPT ![saved] = e1]
                /\ Goto("ERROR", v.p)
                /\ UNCHANGED <<outcome, history>>
    /\ UNCHANGED saved /\ Kept

\* AFTER_VALUE: what follows a value is skipped, with or without a warning.
EndValue ==
    /\ InLine("AFTER_VALUE")
    /\ Goto("DONE", Cursor)
    /\ UNCHANGED <<entries, saved, outcome, history>> /\ Kept

\* A build with assertions (configure.ac defines NDEBUG for a release only)
\* aborts at a list that an error left unfinished: its flag is still set.
ListAsserts ==
    /\ InLine("IN_LIST_BEG")
    /\ ~entries[saved].assigned /\ entries[saved].isList
    /\ outcome' = "threw"
    /\ UNCHANGED <<entries, status, saved, line, p0, ok, history>> /\ Kept

BeginList ==
    /\ InLine("IN_LIST_BEG")
    /\ entries' = [entries EXCEPT ![saved] = StartList(@)]
    /\ Goto("IN_LIST_VALUE", Cursor)
    /\ UNCHANGED <<saved, outcome, history>> /\ Kept

CloseList ==
    /\ status \in InList /\ InLine(status) /\ Here = "]"
    /\ entries' = [entries EXCEPT ![saved].assigned = TRUE]
    /\ given' = [given EXCEPT ![saved] = [kind |-> "list", at |-> pending]]
    /\ Goto("AFTER_VALUE", Cursor + 1)
    /\ UNCHANGED <<saved, outcome, pending>> /\ Kept

\* The end of the line inside a list: the next line goes on here.
PauseList ==
    /\ status \in InList /\ InLine(status) /\ AtEnd
    /\ Goto(status, Cursor)
    /\ UNCHANGED <<entries, saved, outcome, history>> /\ Kept

\* The array is doubled before the value is converted.  A malformed value
\* or one out of range clears the entry; a missing value does not.  Storing
\* and clearing throw when the list overwritten in place is a scalar.
ParseItem ==
    /\ InLine("IN_LIST_VALUE") /\ Here \notin {"end", "]"}
    /\ LET v == ValueHere
           e == entries[saved]
           c == Convert(saved, v.word)
           d == Doubled(e)
           n == e.length + 1
       IN  IF v.status # "IN_LIST_VALUE"
           THEN Goto(v.status, v.p) /\ UNCHANGED <<entries, outcome, history>>
           ELSE IF ClearThrows(e) /\ c.code # 4
           THEN /\ outcome' = "threw"
                /\ UNCHANGED <<entries, status, line, p0, ok, history>>
           ELSE IF c.code = 0
           THEN /\ entries' = [entries EXCEPT ![saved] =
                        [d EXCEPT !.value.at[n] = c.val, !.length = n]]
                /\ pending' = Append(pending, c.val)
                /\ Goto("IN_LIST_AFTER_VALUE", v.p)
                /\ UNCHANGED <<outcome, given>>
           ELSE /\ entries' = [entries EXCEPT ![saved] =
                        IF c.code = 4 THEN d ELSE ClearEntry(d)]
                /\ Goto("ERROR", v.p)
                /\ UNCHANGED <<outcome, history>>
    /\ UNCHANGED saved /\ Kept

ParseComma ==
    /\ InLine("IN_LIST_AFTER_VALUE") /\ Here \notin {"end", "]"}
    /\ IF Here = "," THEN Goto("IN_LIST_VALUE", Cursor + 1)
                     ELSE Goto("ERROR", Cursor)
    /\ UNCHANGED <<entries, saved, outcome, history>> /\ Kept

-----------------------------------------------------------------------------
(* The end of the file, and the set-up of a heavy-hitter query over CMG *)

\* The dependency of an entry is read with std::get<bool>.
DependencyThrows(k) ==
    LET d == Declared[k].needs
    IN  /\ ~entries[k].assigned /\ d \in Keys
        /\ entries[d].value.tag # "scalar"

Missing(k) ==
    LET d == Declared[k].needs
    IN  /\ ~entries[k].assigned
        /\ \/ d = "always"
           \/ d \in Keys /\ entries[d].value.at = "true"

EndOfFile ==
    /\ outcome = "reading" /\ line = << >>
    /\ outcome' = IF \E k \in Keys : DependencyThrows(k) THEN "threw"
                  ELSE IF ok /\ ~\E k \in Keys : Missing(k) THEN "accepted"
                  ELSE "refused"
    /\ UNCHANGED <<entries, status, saved, line, p0, read, ok, sketches,
                   history>>

\* ChainMisraGries::num_configs_defined: -1 for a scalar, 0 when the two
\* lists differ in length and the sketch is left out.
NumConfigsUnchecked ==
    IF ListLength(entries["CMG.epsilon"]) < 0 THEN -1
    ELSE ListLength(entries["CMG.epsilon"])
NumConfigs ==
    LET len == ListLength(entries["CMG.epsilon"])
        len2 == ListLength(entries["CMG.use_update_new"])
    IN  IF len < 0 THEN -1
        ELSE IF len2 \notin {-1, len} THEN 0 ELSE len

\* create_from_config for one position of the lists; value() of an empty
\* optional throws.
Created(idx) ==
    LET new == entries["CMG.use_update_new"]
    IN  [epsilon |-> Get(entries["CMG.epsilon"], idx),
         new |-> Get(new, IF ListLength(new) >= 0 THEN idx ELSE -1)]

Failed(v) == v \in {"none", "throws"}

Setup ==
    /\ outcome = "accepted"
    /\ LET n == NumConfigs
           cmg == IF Get(entries["CMG.enabled"], -1) # "true" THEN << >>
                  ELSE IF n = -1 THEN <<Created(-1)>>
                  ELSE [i \in 1..n |-> Created(i - 1)]
       IN  IF \/ Failed(Get(entries["out_limit"], -1))
              \/ \E i \in DOMAIN cmg : Failed(cmg[i].epsilon) \/ Failed(cmg[i].new)
           THEN outcome' = "threw" /\ UNCHANGED sketches
           ELSE outcome' = "running" /\ sketches' = cmg
    /\ UNCHANGED <<entries, status, saved, line, p0, read, ok, history>>

Stopped == outcome \notin {"reading", "accepted"} /\ UNCHANGED vars

Next ==
    \/ NextLine \/ ParseKey \/ ParseEq \/ ParseScalar \/ EndValue
    \/ ListAsserts \/ BeginList \/ CloseList \/ PauseList \/ ParseItem
    \/ ParseComma
    \/ EndOfFile \/ Setup \/ Stopped

\* One thread reads a file that ends.
Spec == Init /\ [][Next]_vars /\ WF_vars(Next)

-----------------------------------------------------------------------------
\* The file did not end inside a list; one that does is accepted with
\* whatever the unfinished list holds (conf.cpp:640 resumes a list on the
\* next line, and parse_file asks only for m_is_assigned at the end).
Finished == status \notin InList

\* What is_list, list_length and get say of an accepted file is what its
\* last complete assignment to each key said, through every overwriting of
\* scalars by lists and of lists in place, and every growth of the array.
AcceptedReads ==
    outcome \in {"accepted", "running"} /\ Finished =>
        \A k \in Keys : Reading(entries[k]) = given[k]

\* The process dies of an exception, or of the assertion on m_is_list in a
\* build that has it, only over a file the reader had already refused a
\* line of, a list for a key that takes none (which
\* nothing checks), or a list of use_update_new next to a scalar epsilon:
\* the flag m_is_list and the variant of an entry disagree only after an
\* error message.
AbortsExplained ==
    outcome = "threw" /\ ok /\ Finished =>
        \/ \E k \in Keys : given[k].kind = "list" /\ ~Declared[k].list
        \/ /\ given["CMG.use_update_new"].kind = "list"
           /\ given["CMG.epsilon"].kind = "scalar"

\* The sketches the file asks for: one for each position of the lists, each
\* with the values of its own position, or none when the lists have
\* different lengths.
Asked ==
    LET eps == given["CMG.epsilon"]
        new == given["CMG.use_update_new"]
        At(g, i) == IF g.kind = "list" THEN g.at[i] ELSE g.at
        n == IF eps.kind = "scalar" THEN 1
             ELSE IF new.kind = "list" /\ Len(new.at) # Len(eps.at) THEN 0
             ELSE Len(eps.at)
    IN  [i \in 1..n |-> [epsilon |-> At(eps, i), new |-> At(new, i)]]

\* A query that starts with the sketch enabled runs what was asked for.
SetupBuildsAsked ==
    outcome = "running" /\ Finished
    /\ given["CMG.enabled"].kind = "scalar" /\ given["CMG.enabled"].at = "true" =>
        sketches = Asked

\* Reading ends, whatever the file: every round of the loop of parse_line
\* moves on or leaves the line.
ParseEnds == <>(outcome # "reading")
=============================================================================
