-------------------------------- MODULE Limits --------------------------------
(***************************************************************************)
(* The connections of the daemon and the quotas they share: a slot per     *)
(* identity that has shaken hands, a queue per frontend, a bound on the    *)
(* storage operations under way, and the count of live connections that a  *)
(* restore looks at.                                                       *)
(*                                                                         *)
(* Every counter has a lock of its own, so that taking and giving back     *)
(* each one is a step of its own.  A connection handles one frame at a     *)
(* time and hears of a peer that hung up when it reads or writes, not      *)
(* while a request is dispatched.                                          *)
(*                                                                         *)
(* Abstractions.  What a handshake is answered is left open (Retry has     *)
(* epochs and generations); what a request does too.  A reply that cannot  *)
(* be written ends the connection where it would read again.               *)
(***************************************************************************)
EXTENDS Naturals, FiniteSets

CONSTANTS
    Connections,
    Identities,         \* a frontend and a channel
    MaxClients, MaxQueued, MaxStorage

VARIABLES
    line,       \* connection -> its step, what it claims in the handshake under way, and who it is
    clients,    \* identity -> connections that hold its slot
    queued,     \* frontend -> its requests between enqueue and dequeue
    storing,    \* storage operations in flight
    live,       \* connections whose task lives
    wronged     \* someone was refused although there was room (history)

limitvars == <<line, clients, queued, storing, live, wronged>>

NoOne == <<"none", "none">>
Accounts == {i[1] : i \in Identities}
Gone == [step |-> "gone", claim |-> NoOne, as |-> NoOne]
LineSteps == {"gone", "reading", "shaking", "admitted", "enqueued", "declined", "storing", "stored",
          "ending", "freed"}

LimitsTypeOK ==
    /\ line \in [Connections -> [step : LineSteps, claim : Identities \cup {NoOne},
                                 as : Identities \cup {NoOne}]]
    /\ clients \in [Identities -> Nat] /\ queued \in [Accounts -> Nat]
    /\ {storing, live} \subseteq Nat /\ wronged \in BOOLEAN

\* A daemon has finitely many connections, and no client calls itself nobody.
LimitsConstants ==
    /\ IsFiniteSet(Connections) /\ NoOne \notin Identities
    /\ {MaxClients, MaxQueued, MaxStorage} \subseteq Nat

LimitsInit ==
    /\ line = [c \in Connections |-> Gone]
    /\ clients = [i \in Identities |-> 0]
    /\ queued = [f \in Accounts |-> 0]
    /\ storing = 0 /\ live = 0 /\ wronged = FALSE

\* What is really there.
In(steps) == {c \in Connections : line[c].step \in steps}
Authenticated == {c \in Connections : line[c].as # NoOne}
HeldBy(cs) == {line[c].as : c \in cs}
Working(f) == {c \in In({"enqueued", "declined", "storing", "stored"}) : line[c].as[1] = f}

Goes(c, step) == line' = [line EXCEPT ![c] = [step |-> step, claim |-> NoOne, as |-> @.as]]
Refused(room) == wronged' = (wronged \/ room)

-----------------------------------------------------------------------------
(* A connection comes, and goes.                                           *)

Connect(c) ==
    /\ line[c].step = "gone"
    /\ live' = live + 1
    /\ Goes(c, "reading")
    /\ UNCHANGED <<clients, queued, storing, wronged>>

\* The peer is gone, a frame is too long or is not a message, or a reply is not taken.
CloseLine(c) ==
    /\ line[c].step = "reading"
    /\ Goes(c, "ending")
    /\ UNCHANGED <<clients, queued, storing, live, wronged>>

\* Mutant: the slot goes with the first of its holders.
UnregisteredAll(held, i) == [held EXCEPT ![i] = 0]

Unregistered(held, i) == [held EXCEPT ![i] = IF @ = 0 THEN 0 ELSE @ - 1]

\* The guards are dropped, the slot's first.
FreeSlot(c) ==
    /\ line[c].step = "ending"
    /\ clients' = IF line[c].as = NoOne THEN clients ELSE Unregistered(clients, line[c].as)
    /\ line' = [line EXCEPT ![c] = [step |-> "freed", claim |-> NoOne, as |-> NoOne]]
    /\ UNCHANGED <<queued, storing, live, wronged>>

Disconnect(c) ==
    /\ line[c].step = "freed"
    /\ live' = IF live = 0 THEN 0 ELSE live - 1
    /\ Goes(c, "gone")
    /\ UNCHANGED <<clients, queued, storing, wronged>>

-----------------------------------------------------------------------------
(* Handshakes.                                                             *)

\* On a connection that has an identity, another one is told off and not heard.
Shake(c, i) ==
    /\ line[c].step = "reading" /\ line[c].as \in {NoOne, i}
    /\ line' = [line EXCEPT ![c] = [step |-> "shaking", claim |-> i, as |-> @.as]]
    /\ UNCHANGED <<clients, queued, storing, live, wronged>>

\* handle_handshake says yes; or no, for good.
Admitted(c) ==
    /\ line[c].step = "shaking"
    /\ \/ line' = [line EXCEPT ![c] = [step |-> "admitted", claim |-> @.claim, as |-> @.as]]
       \/ Goes(c, "ending")
    /\ UNCHANGED <<clients, queued, storing, live, wronged>>

\* Or that the generation is another one: the connection starts over, without its slot.
StartsOver(c) ==
    /\ line[c].step = "shaking"
    /\ clients' = IF line[c].as = NoOne THEN clients ELSE Unregistered(clients, line[c].as)
    /\ line' = [line EXCEPT ![c] = [step |-> "reading", claim |-> NoOne, as |-> NoOne]]
    /\ UNCHANGED <<queued, storing, live, wronged>>

Slots(held) == {i \in Identities : held[i] > 0}

\* The first success takes a slot, or shares the one its identity has.
Register(c) ==
    LET i == line[c].claim
        fits == line[c].as = i \/ i \in Slots(clients)
                \/ Cardinality(Slots(clients)) < MaxClients
    IN  /\ line[c].step = "admitted"
        /\ IF fits
           THEN /\ clients' = IF line[c].as = i THEN clients ELSE [clients EXCEPT ![i] = @ + 1]
                /\ line' = [line EXCEPT ![c] = [step |-> "reading", claim |-> NoOne, as |-> i]]
                /\ UNCHANGED wronged
           ELSE /\ Goes(c, "ending") /\ UNCHANGED clients
                /\ Refused(Cardinality(HeldBy(Authenticated)) < MaxClients)
        /\ UNCHANGED <<queued, storing, live>>

-----------------------------------------------------------------------------
(* Requests.                                                               *)

\* Before a handshake a request ends the connection; one in another's name is told off.
Enqueue(c) ==
    LET f == line[c].as[1]
    IN  /\ line[c].step = "reading"
        /\ IF line[c].as = NoOne
           THEN Goes(c, "ending") /\ UNCHANGED <<queued, wronged>>
           ELSE IF queued[f] >= MaxQueued
           THEN Refused(Cardinality(Working(f)) < MaxQueued) /\ UNCHANGED <<line, queued>>
           ELSE /\ queued' = [queued EXCEPT ![f] = @ + 1]
                /\ Goes(c, "enqueued") /\ UNCHANGED wronged
        /\ UNCHANGED <<clients, storing, live>>

StartStorage(c) ==
    /\ line[c].step = "enqueued"
    /\ IF storing >= MaxStorage
       THEN /\ Goes(c, "declined") /\ UNCHANGED storing
            /\ Refused(Cardinality(In({"storing"})) < MaxStorage)
       ELSE Goes(c, "storing") /\ storing' = storing + 1 /\ UNCHANGED wronged
    /\ UNCHANGED <<clients, queued, live>>

\* However the dispatch ended.
FinishStorage(c) ==
    /\ line[c].step = "storing"
    /\ storing' = IF storing = 0 THEN 0 ELSE storing - 1
    /\ Goes(c, "stored")
    /\ UNCHANGED <<clients, queued, live, wronged>>

Dequeue(c) ==
    LET f == line[c].as[1]
    IN  /\ line[c].step \in {"stored", "declined"}
        /\ queued' = [queued EXCEPT ![f] = IF @ = 0 THEN 0 ELSE @ - 1]
        /\ Goes(c, "reading")
        /\ UNCHANGED <<clients, storing, live, wronged>>

LimitsNext ==
    \E c \in Connections :
        \/ Connect(c) \/ CloseLine(c) \/ FreeSlot(c) \/ Disconnect(c)
        \/ (\E i \in Identities : Shake(c, i)) \/ Admitted(c) \/ StartsOver(c) \/ Register(c)
        \/ Enqueue(c) \/ StartStorage(c) \/ FinishStorage(c) \/ Dequeue(c)

LimitsSpec == LimitsInit /\ [][LimitsNext]_limitvars

-----------------------------------------------------------------------------
(* Properties.                                                             *)

\* Whatever order connections come, fail, shake hands again and go in: no more identities,
\* requests and storage operations are there than allowed; nobody is refused while there is
\* room; and a restore that reads the count of live connections sees every identity that
\* may still send.
LimitsBind ==
    /\ Cardinality(HeldBy(Authenticated)) <= MaxClients
    /\ Cardinality(In({"storing"})) <= MaxStorage
    /\ \A f \in Accounts : Cardinality(Working(f)) <= MaxQueued
    /\ ~wronged
    /\ live = Cardinality(Connections \ In({"gone"}))
=============================================================================
