---------------------------- MODULE MCDispatcher ----------------------------
(* Plans, replies and symmetry for the model-checked instances.            *)
EXTENDS Dispatcher, TLC

CONSTANTS o1, o2

To(o) == [outbound |-> o, unavailable |-> FALSE]
Unavailable(o) == [outbound |-> o, unavailable |-> TRUE]

OnePlan == { <<To(o1)>> }
FallbackPlans == { <<To(o1), To(o2)>>, <<To(o2), Unavailable(o1)>>, <<Unavailable(o1), To(o2), To(o1)>> }

Http(kind) == [kind |-> kind, http |-> TRUE]
Plain(kind) == [kind |-> kind, http |-> FALSE]

RecoverableReplies == { Http("quota_exceeded"), Plain("retryable") }
MixedReplies == RecoverableReplies \cup { Http("auth_failed") }
AllReplies ==
  { Http("quota_exceeded"), Http("auth_failed"), Http("fatal"), Http("upstream_server_error"),
    Plain("timeout"), Plain("retryable"), Plain("unknown"), Plain("capability_unsupported") }

RequestSymmetry == Permutations(Requests)
=============================================================================
