-------------------------- MODULE FrequencySummary --------------------------
(***************************************************************************)
(* What a mergeable frequency sketch promises, whatever algorithm is       *)
(* inside: each summary answers est[s][x] for an exact count f[s][x], and  *)
(* the answer is never above the exact count and below it by at most       *)
(* err[s], the weight the summary declined to credit to the item it came   *)
(* with.                                                                   *)
(***************************************************************************)
EXTENDS Integers

CONSTANTS Key, Sketch, Weights

VARIABLES
  f,     \* the exact counts of the stream behind each summary
  est,   \* the counts the summary answers with
  err    \* by how much an answer may be short

vars == <<f, est, err>>

Within(exactly, answer, slack) ==
  \A x \in Key : answer[x] <= exactly[x] /\ exactly[x] <= answer[x] + slack

Init ==
  /\ f = [s \in Sketch |-> [x \in Key |-> 0]]
  /\ est = f
  /\ err = [s \in Sketch |-> 0]

OthersKeep(S) ==
  \A r \in Sketch \ S : f'[r] = f[r] /\ est'[r] = est[r] /\ err'[r] = err[r]

\* One arrival: the error grows by at most the weight that arrived.
Add(s, x, c) ==
  /\ f'[s] = [f[s] EXCEPT ![x] = @ + c]
  /\ err[s] <= err'[s] /\ err'[s] <= err[s] + c
  /\ Within(f'[s], est'[s], err'[s])
  /\ OthersKeep({s})

\* s absorbs t; t's own answers may get less accurate, never its error.
Combine(s, t) ==
  /\ f'[s] = [x \in Key |-> f[s][x] + f[t][x]]
  /\ err'[s] >= err[s] + err[t]
  /\ f'[t] = f[t] /\ err'[t] = err[t]
  /\ Within(f'[s], est'[s], err'[s])
  /\ Within(f'[t], est'[t], err'[t])
  /\ OthersKeep({s, t})

Copy(s, t) ==
  /\ f'[t] = f[s] /\ est'[t] = est[s] /\ err'[t] = err[s]
  /\ OthersKeep({t})

Forget(s) ==
  /\ f'[s] = [x \in Key |-> 0] /\ est'[s] = [x \in Key |-> 0] /\ err'[s] = 0
  /\ OthersKeep({s})

Next ==
  \/ \E s \in Sketch, x \in Key, c \in Weights : Add(s, x, c)
  \/ \E s, t \in Sketch : s # t /\ Combine(s, t)
  \/ \E s, t \in Sketch : s # t /\ Copy(s, t)
  \/ \E s \in Sketch : Forget(s)

Spec == Init /\ [][Next]_vars
=============================================================================
