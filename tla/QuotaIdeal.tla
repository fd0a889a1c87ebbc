----------------------------- MODULE QuotaIdeal -----------------------------
(***************************************************************************)
(* What a quota subject promises, without saying how: usage is forgotten   *)
(* only with the window it was counted in or by a restart, which goes back *)
(* to the last snapshot; and a request is refused for its windows exactly  *)
(* when what was used within one of them reaches a limit.  Which usage     *)
(* lies within a window is stated by the time of each event: nothing is    *)
(* ever discarded because time has passed.                                 *)
(***************************************************************************)
EXTENDS Integers, Sequences, FiniteSets

CONSTANTS Amounts,          \* the usage one request can add
          usageEvent(_, _), \* ... and what is kept of it, with the time
          Key(_),           \* the identity of a window
          Counts(_, _, _),  \* whether a window counts, at one time, usage of another
          Limited(_, _)     \* whether what a window counts reaches a limit

VARIABLES now,        \* the clock
          limits,     \* the windows in force, as [window, all]: all is reset_all's
                      \* schedule, of period "" when there is none
          log,        \* per identity of a window in force: all usage, in order
          saved,      \* the log at the last snapshot
          verdict     \* of the admission just decided, or "none"

idealVars == <<now, limits, log, saved, verdict>>

(* The entries of a sequence at some of its positions, in order. *)
Selected(s, keep) ==
  [j \in 1 .. Cardinality(keep) |-> s[CHOOSE i \in keep : Cardinality({m \in keep : m <= i}) = j]]

(* What a window counts at time t. *)
Within(l, t) == Selected(log[Key(l)], {i \in DOMAIN log[Key(l)] : Counts(l, log[Key(l)][i].at, t)})

Full(t) == \E l \in limits : Limited(l.window, Within(l, t))

KeysOf(ls) == {Key(l) : l \in ls}

IdealInit == log = [k \in KeysOf(limits) |-> << >>] /\ saved = << >>

IdealTick == now' = now + 1 /\ verdict' = "none" /\ UNCHANGED <<limits, log, saved>>

IdealDecide ==
  /\ verdict' \in {"allowed", "limited", "cooldown", "probe"}
  /\ verdict' = "allowed" => ~Full(now)
  /\ verdict' = "limited" => Full(now)
  /\ UNCHANGED <<now, limits, log, saved>>

IdealRecord ==
  /\ \E counted \in SUBSET KeysOf(limits), a \in Amounts :
       log' = [k \in DOMAIN log |-> IF k \in counted THEN Append(log[k], usageEvent(now, a)) ELSE log[k]]
  /\ verdict' = "none" /\ UNCHANGED <<now, limits, saved>>

IdealSave == saved' = log /\ verdict' = "none" /\ UNCHANGED <<now, limits, log>>

(* Other windows come into force.  One that was in force before keeps its  *)
(* usage, whatever becomes of its limits; the others start clean.          *)
IdealReconfigure ==
  /\ log' = [k \in KeysOf(limits') |-> IF k \in DOMAIN log THEN log[k] ELSE << >>]
  /\ verdict' = "none" /\ UNCHANGED <<now, saved>>

(* After a restart every window has what was saved of it. *)
IdealRestart ==
  /\ log' = [k \in KeysOf(limits') |-> IF k \in DOMAIN saved THEN saved[k] ELSE << >>]
  /\ verdict' = "none" /\ UNCHANGED <<now, saved>>

IdealNext == IdealTick \/ IdealDecide \/ IdealRecord \/ IdealSave \/ IdealReconfigure \/ IdealRestart

IdealSpec == IdealInit /\ [][IdealNext]_idealVars
=============================================================================
