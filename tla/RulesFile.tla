------------------------------ MODULE RulesFile ------------------------------
(***************************************************************************)
(* What cacher_config.h promises of a rules file, with no cache in sight:  *)
(* a call is answered with a meaning the file has had since the call       *)
(* began, "no restart needed".  A reader that an edit overtakes, or that   *)
(* cannot read the file, may also find nothing usable, and readers of a    *)
(* file that is being rewritten in place a mixture of old and new.         *)
(***************************************************************************)
CONSTANTS Threads, Paths, Rulesets, None   \* None: no usable ruleset

VARIABLES
    meaning,  \* what each file stands for
    phase,    \* "idle", "busy" or "done", for each caller
    asked,    \* the file it asked for
    possible, \* the answers the call may give
    answer    \* the one it gave

vars == <<meaning, phase, asked, possible, answer>>

Init ==
    /\ meaning \in [Paths -> Rulesets]
    /\ phase = [t \in Threads |-> "idle"]
    /\ asked \in [Threads -> Paths]
    /\ possible = [t \in Threads |-> {}]
    /\ answer = [t \in Threads |-> None]

Ask(t, p) ==
    /\ phase[t] = "idle"
    /\ phase' = [phase EXCEPT ![t] = "busy"]
    /\ asked' = [asked EXCEPT ![t] = p]
    /\ possible' = [possible EXCEPT ![t] = {meaning[p]}]
    /\ UNCHANGED <<meaning, answer>>

Answer(t) ==
    /\ phase[t] = "busy"
    /\ \E r \in possible[t] : answer' = [answer EXCEPT ![t] = r]
    /\ phase' = [phase EXCEPT ![t] = "done"]
    /\ UNCHANGED <<meaning, asked, possible>>

\* The file cannot be read.
Fail(t) ==
    /\ phase[t] = "busy"
    /\ phase' = [phase EXCEPT ![t] = "done"]
    /\ possible' = [possible EXCEPT ![t] = @ \cup {None}]
    /\ answer' = [answer EXCEPT ![t] = None]
    /\ UNCHANGED <<meaning, asked>>

Leave(t, p) ==
    /\ phase[t] = "done"
    /\ phase' = [phase EXCEPT ![t] = "idle"]
    /\ asked' = [asked EXCEPT ![t] = p]
    /\ possible' = [possible EXCEPT ![t] = {}]
    /\ answer' = [answer EXCEPT ![t] = None]
    /\ UNCHANGED meaning

\* The mixtures are what those in the middle of reading come to see.
Change(p, m, mixtures) ==
    /\ meaning' = [meaning EXCEPT ![p] = m]
    /\ possible' = [t \in Threads |-> IF phase[t] # "idle" /\ asked[t] = p
                                      THEN possible[t] \cup {None, m} \cup mixtures ELSE possible[t]]
    /\ UNCHANGED <<phase, asked, answer>>

Next ==
    \/ \E t \in Threads : Answer(t) \/ Fail(t) \/ \E p \in Paths : Ask(t, p) \/ Leave(t, p)
    \/ \E p \in Paths, m \in Rulesets, mixtures \in SUBSET Rulesets : Change(p, m, mixtures)

Spec == Init /\ [][Next]_vars
=============================================================================
