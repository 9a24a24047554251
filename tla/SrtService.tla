------------------------------ MODULE SrtService ------------------------------
(***************************************************************************)
(* What an SRT connection in live mode with TSBPD off, as SrtListener sets *)
(* it, promises to its two users: a message is delivered at most once, and *)
(* only if it was sent; one with order flag overtakes nothing; and only    *)
(* messages whose time to live has ended are given up.  SrtTransfer        *)
(* implements it.                                                          *)
(***************************************************************************)
EXTENDS Naturals, Sequences, Functions

VARIABLES sent,       \* the order flag of each message sent so far
          delivered,  \* the numbers of the messages delivered, in that order
          tooOld,     \* messages whose time to live has ended
          givenUp     \* those of them that will not be delivered any more

vars == <<sent, delivered, tooOld, givenUp>>

Init == sent = <<>> /\ delivered = <<>> /\ tooOld = {} /\ givenUp = {}

\* srt_sendmsg takes a message.
Send(inorder) ==
    /\ sent' = Append(sent, inorder)
    /\ UNCHANGED <<delivered, tooOld, givenUp>>

Age(m) ==
    /\ m \in DOMAIN sent
    /\ tooOld' = tooOld \cup {m}
    /\ UNCHANGED <<sent, delivered, givenUp>>

\* srt_recvmsg returns a message.
Deliver(m) ==
    /\ m \in DOMAIN sent
    /\ m \notin Range(delivered) \cup givenUp
    /\ sent[m] => 1..(m - 1) \subseteq Range(delivered) \cup givenUp
    /\ delivered' = Append(delivered, m)
    /\ UNCHANGED <<sent, tooOld, givenUp>>

GiveUp(ms) ==
    /\ ms \subseteq tooOld \ Range(delivered)
    /\ givenUp' = givenUp \cup ms
    /\ UNCHANGED <<sent, delivered, tooOld>>

Next ==
    \/ \E inorder \in BOOLEAN : Send(inorder)
    \/ \E m \in DOMAIN sent : Age(m) \/ Deliver(m)
    \/ \E ms \in SUBSET tooOld : GiveUp(ms)

Spec == Init /\ [][Next]_vars

=============================================================================
