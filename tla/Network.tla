------------------------------ MODULE Network ------------------------------
(***************************************************************************)
(* The UDP sockets of one client and the server, and com.c on top of them: *)
(* a queue of datagrams in each direction, what the network may do to a    *)
(* datagram, and what com_receive makes of the one at the head of a queue. *)
(*                                                                         *)
(* Every disturbance is paid from a budget, so that a run bounds how often *)
(* each kind happens and shows which kinds a property depends on.          *)
(***************************************************************************)
EXTENDS Protocol

CONSTANT Budgets   \* how often each kind of disturbance may happen

Disturbances ==
    { "loseRequest", "badRequest",   \* client to server: lost, corrupted
      "loseReply", "badReply",       \* server to client: lost, corrupted
      "delay",                       \* a datagram is passed by later ones
      "late",                        \* the client times out too early
      "expire" }                     \* the server's timer drops the client

ASSUME BudgetAssumption == Budgets \subseteq [Disturbances -> Nat]

VARIABLES
    c2s,        \* datagrams sent to the server and not yet received
    s2c,        \* datagrams sent to the client and not yet received
    delayed,    \* requests that later ones may pass
    overtaken,  \* whether one has ever been held back for others to pass
    budget      \* the disturbances still to come

\* What the two programs act on; the other two are the network's own.
netVars == <<c2s, s2c, budget>>

QueueTypeOK ==
    /\ c2s \in Seq(Request)
    /\ s2c \in Seq(Reply)
    /\ budget \in [Disturbances -> Nat]

NetTypeOK ==
    QueueTypeOK /\ delayed \in SUBSET Request /\ overtaken \in BOOLEAN

NetInit ==
    /\ c2s = <<>> /\ s2c = <<>>
    /\ delayed = {} /\ overtaken = FALSE
    /\ budget \in Budgets

Spend(kind) ==
    /\ budget[kind] > 0
    /\ budget' = [budget EXCEPT ![kind] = @ - 1]

-----------------------------------------------------------------------------
(***************************************************************************)
(* com_send: the datagram arrives intact, is lost, or arrives with bits    *)
(* flipped in its header or in its data.                                   *)
(***************************************************************************)
ToServer(m) ==
    \/ c2s' = Append(c2s, m) /\ UNCHANGED budget
    \/ Spend("loseRequest") /\ UNCHANGED c2s
    \/ \E f \in Fits \ {"ok"} :
          Spend("badRequest") /\ c2s' = Append(c2s, [m EXCEPT !.fit = f])

ToClient(m) ==
    \/ s2c' = Append(s2c, m) /\ UNCHANGED budget
    \/ Spend("loseReply") /\ UNCHANGED s2c
    \/ \E f \in Fits \ {"ok"} :
          Spend("badReply") /\ s2c' = Append(s2c, [m EXCEPT !.fit = f])

(***************************************************************************)
(* com_receive on a queue that is not empty.  A datagram whose header      *)
(* fails checksum1 is consumed even when the caller only peeks; one whose  *)
(* data fails checksum2 stays when the caller peeks.                       *)
(***************************************************************************)
Intact(q) == Head(q).fit = "ok"

AfterReceive(q, peek) ==
    IF peek /\ Head(q).fit # "head" THEN q ELSE Tail(q)

-----------------------------------------------------------------------------
(***************************************************************************)
(* UDP may hold a datagram back while others pass.  (Replies need no such  *)
(* step: a client that timed out too early finds them late as well.)       *)
(***************************************************************************)
Delay ==
    /\ c2s # <<>>
    /\ delayed = {}          \* bound: one datagram at a time
    /\ Spend("delay")
    /\ delayed' = {Head(c2s)} /\ overtaken' = TRUE
    /\ c2s' = Tail(c2s)
    /\ UNCHANGED s2c

Deliver ==
    \E m \in delayed :
        /\ delayed' = delayed \ {m}
        /\ c2s' = Append(c2s, m)
        /\ UNCHANGED <<s2c, budget, overtaken>>
=============================================================================
