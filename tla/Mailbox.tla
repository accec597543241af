------------------------------ MODULE Mailbox ------------------------------
(***************************************************************************)
(* What a message queue promises, whatever holds it: an accepted message is *)
(* received once, and each addressee receives its messages in the order in  *)
(* which they were accepted.                                                *)
(***************************************************************************)
EXTENDS Integers, Sequences, SequencesExt, FiniteSetsExt

CONSTANTS
    Addressee,  \* who messages are sent to
    Capacity    \* how many messages it holds at most

VARIABLES
    box,        \* the accepted messages nobody received yet
    got         \* the last message received, per addressee

MailboxInit == box = <<>> /\ got = [a \in Addressee |-> <<>>]

Send == \E a \in Addressee, body \in {"a", "b"} :
    /\ Len(box) < Capacity
    /\ box' = Append(box, [to |-> a, body |-> body])
    /\ UNCHANGED got

Receive == \E a \in Addressee :
    LET mine == {k \in DOMAIN box : box[k].to = a}
    IN  /\ mine # {}
        /\ got' = [got EXCEPT ![a] = <<box[Min(mine)]>>]
        /\ box' = RemoveAt(box, Min(mine))

\* The program is gone, and its messages with it.
Clear == box' = <<>> /\ got' = [a \in Addressee |-> <<>>]

MailboxSpec == MailboxInit /\ [][Send \/ Receive \/ Clear]_<<box, got>>
=============================================================================
