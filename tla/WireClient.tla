----------------------------- MODULE WireClient -----------------------------
(***************************************************************************)
(* The wire tests' client (wiretest/client.py, endpoint.py): one confirmed *)
(* request at a time, sent again with the same invoke id when its answer   *)
(* is late, over a network that loses, delays and reorders datagrams and   *)
(* a device (external) that answers every request it gets.                 *)
(*                                                                         *)
(* A datagram carries its invoke id; that it belongs to the n-th call and  *)
(* the k-th attempt is known to the model only.                            *)
(***************************************************************************)
EXTENDS Naturals

CONSTANTS
    InvokeIds,  \* the number of invoke ids, 256 in the code
    retries,
    MaxAge,     \* the calls a late datagram survives: fewer than there are invoke ids
    MaxCalls    \* bound on the calls of a test

ASSUME WireClientAssumption ==
    /\ InvokeIds \in Nat \ {0} /\ retries \in Nat /\ MaxCalls \in Nat
    /\ MaxAge \in Nat /\ MaxAge < InvokeIds

VARIABLES
    state,      \* "idle", "waiting", "answered" or "unanswered"
    _invoke_id,
    calls,      \* the calls made so far
    attempts,   \* the times the current one was sent
    requests,   \* requests on their way to the device
    answers,    \* answers on their way, or waiting at the socket
    frames,     \* Endpoint.frames: the answers kept
    frame       \* what the call returned, as a set of at most one

clientVars == <<state, _invoke_id, calls, attempts, requests, answers, frames, frame>>

-----------------------------------------------------------------------------
Datagrams == [invoke_id : 0..(InvokeIds - 1), call : 1..MaxCalls, attempt : 1..(retries + 1)]

\* Mutant: the number is not moved on.
SameInvokeId == _invoke_id

_next_invoke_id == (_invoke_id + 1) % InvokeIds

\* Old datagrams are lost for good.
Live(S, call) == {d \in S : call - d.call <= MaxAge}

\* Client.request: the answers of earlier calls that were kept are forgotten, the
\* ones still on their way are not.
request ==
    /\ state \in {"idle", "answered", "unanswered"} /\ calls < MaxCalls
    /\ state' = "waiting"
    /\ _invoke_id' = _next_invoke_id
    /\ calls' = calls + 1 /\ attempts' = 1
    /\ requests' = Live(requests, calls + 1)
                   \cup {[invoke_id |-> _next_invoke_id, call |-> calls + 1, attempt |-> 1]}
    /\ answers' = Live(answers, calls + 1)
    /\ frames' = {} /\ frame' = {}

\* The device answers with the invoke id of the request.
DeviceAnswers ==
    /\ \E d \in requests : requests' = requests \ {d} /\ answers' = answers \cup {d}
    /\ UNCHANGED <<state, _invoke_id, calls, attempts, frames, frame>>

Lose ==
    /\ \/ \E d \in requests : requests' = requests \ {d} /\ UNCHANGED answers
       \/ \E d \in answers : answers' = answers \ {d} /\ UNCHANGED requests
    /\ UNCHANGED <<state, _invoke_id, calls, attempts, frames, frame>>

\* Mutant: only the answer to the latest attempt counts.
WaitForThisAttempt ==
    /\ state = "waiting"
    /\ \E d \in answers :
        /\ answers' = answers \ {d}
        /\ frames' = frames \cup {d}
        /\ IF d.invoke_id = _invoke_id /\ d.attempt = attempts
           THEN state' = "answered" /\ frame' = {d}
           ELSE UNCHANGED <<state, frame>>
    /\ UNCHANGED <<_invoke_id, calls, attempts, requests>>

\* Endpoint.wait_for: a datagram is kept, and returned if the predicate accepts it.
wait_for ==
    /\ state = "waiting"
    /\ \E d \in answers :
        /\ answers' = answers \ {d}
        /\ frames' = frames \cup {d}
        /\ IF d.invoke_id = _invoke_id
           THEN state' = "answered" /\ frame' = {d}
           ELSE UNCHANGED <<state, frame>>
    /\ UNCHANGED <<_invoke_id, calls, attempts, requests>>

\* Mutant: a request is sent again until it is answered.
RetryForEver ==
    /\ state = "waiting"
    /\ requests' = requests \cup {[invoke_id |-> _invoke_id, call |-> calls, attempt |-> attempts]}
    /\ UNCHANGED <<state, _invoke_id, calls, attempts, answers, frames, frame>>

\* send_with_retries, when an attempt's time is over: the same octets again, or None.
send_with_retries ==
    /\ state = "waiting"
    /\ IF attempts < retries + 1
       THEN /\ attempts' = attempts + 1
            /\ requests' = requests \cup {[invoke_id |-> _invoke_id, call |-> calls, attempt |-> attempts + 1]}
            /\ UNCHANGED state
       ELSE state' = "unanswered" /\ UNCHANGED <<attempts, requests>>
    /\ UNCHANGED <<_invoke_id, calls, answers, frames, frame>>

ClientInit ==
    /\ state = "idle" /\ _invoke_id = 0 /\ calls = 0 /\ attempts = 0
    /\ requests = {} /\ answers = {} /\ frames = {} /\ frame = {}

ClientNext == request \/ DeviceAnswers \/ Lose \/ wait_for \/ send_with_retries

ClientSpec == ClientInit /\ [][ClientNext]_clientVars

\* An attempt's time passes.
FairClientSpec == ClientSpec /\ WF_clientVars(send_with_retries)

-----------------------------------------------------------------------------
(***************************************************************************)
(* Properties.                                                             *)
(***************************************************************************)
\* Every variable has its type; no more attempts are made than were asked for.
ClientTypeOK ==
    /\ state \in {"idle", "waiting", "answered", "unanswered"}
    /\ _invoke_id \in 0..(InvokeIds - 1)
    /\ calls \in 0..MaxCalls /\ attempts \in 0..(retries + 1)
    /\ requests \cup answers \cup frames \cup frame \subseteq Datagrams

\* An answer to any attempt of the call counts, a late one to an earlier attempt too: a
\* call that goes on waiting, or gives up, has not taken an answer to itself off the
\* socket and passed it over (wait_for matches the invoke id, which send_with_retries
\* repeats with the same octets).
NoAnswerMissed == state \in {"waiting", "unanswered"} => \A d \in frames : d.call # calls

\* "waits for the answer with the matching invoke id" (client.py): a call never returns
\* the answer of an earlier one, and never passes over one of its own, although late
\* answers wait at the socket, a request is sent several times and the ids come round
\* again; and no more attempts are made than were asked for.
AnswerIsMine == ClientTypeOK /\ NoAnswerMissed /\ \A d \in frame : d.call = calls

\* A call is over after its last attempt, whatever the network loses.
CallEnds == state = "waiting" ~> state \in {"answered", "unanswered"}
=============================================================================
