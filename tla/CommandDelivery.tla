--------------------------- MODULE CommandDelivery ---------------------------
(***************************************************************************)
(* What the command link of either firmware promises its hosts, without    *)
(* characters, buffers or interrupts: the commands run for a port are      *)
(* those sent to it, once each and in order, and what a host reads as the  *)
(* reply is that of the command run last, or nothing.  A port on which     *)
(* something was lost has no promise of its own; when the commands of all  *)
(* ports are mixed up, all there is left is that the past is not changed.  *)
(***************************************************************************)
EXTENDS Integers, Sequences, SequencesExt

CONSTANTS
    Port,      \* where commands come in
    Message    \* the commands that may be sent

VARIABLES
    sent,      \* for each port, the commands sent to it
    ran,       \* for each port, the commands run for it
    answer,    \* the reply that is ready: empty, or that of one command
    reply,     \* the reply that was read last
    disturbed  \* ports on which something was lost or mixed up

vars == <<sent, ran, answer, reply, disturbed>>

Init ==
    /\ sent = [p \in Port |-> <<>>] /\ ran = [p \in Port |-> <<>>]
    /\ answer = <<>> /\ reply = <<>>
    /\ disturbed = {}

\* A command of p is run, and answered unless the link has no replies.
Ran(p, m) ==
    /\ ran' = [ran EXCEPT ![p] = Append(@, m)]
    /\ answer' \in {<<m>>, <<>>}
    /\ UNCHANGED <<reply, disturbed>>

\* A host sends a command.
Send(p, m) ==
    /\ sent' = [sent EXCEPT ![p] = Append(@, m)]
    /\ UNCHANGED <<ran, answer, reply, disturbed>>

\* A host sends a command that is run as it comes.
Call(p, m) ==
    /\ ran[p] = sent[p]
    /\ sent' = [sent EXCEPT ![p] = Append(@, m)]
    /\ Ran(p, m) /\ answer' = <<m>>

\* Some command of p is still to be run.
Waiting(p) == p \in disturbed \/ Len(ran[p]) < Len(sent[p])

\* The next command of p is run.
Run(p) ==
    /\ p \notin disturbed /\ Waiting(p)
    /\ Ran(p, sent[p][Len(ran[p]) + 1])
    /\ UNCHANGED sent

\* After a loss anything may be run for p, and it is answered as what it is.
RunAnything(p) ==
    /\ p \in disturbed /\ Len(ran'[p]) > Len(ran[p])
    /\ Ran(p, Last(ran'[p]))
    /\ UNCHANGED sent

\* A reply that was not read is withdrawn when a command is taken up.
Withdraw ==
    /\ \E p \in Port : Waiting(p)
    /\ answer' = <<>>
    /\ UNCHANGED <<sent, ran, reply, disturbed>>

\* A host reads the reply.
Request ==
    /\ reply' = answer
    /\ UNCHANGED <<sent, ran, answer, disturbed>>

\* Something is lost on p.
Lose(p) ==
    /\ disturbed' = disturbed \cup {p}
    /\ UNCHANGED <<sent, ran, answer, reply>>

\* The commands of all ports are mixed up, or have been.
Mix ==
    /\ disturbed' = Port
    /\ \A p \in Port : IsPrefix(sent[p], sent'[p]) /\ IsPrefix(ran[p], ran'[p])
    /\ reply' \in {reply, answer}

Next ==
    \/ \E p \in Port : Run(p) \/ RunAnything(p) \/ Lose(p)
    \/ \E p \in Port, m \in Message : Send(p, m) \/ Call(p, m)
    \/ Withdraw \/ Request \/ Mix

Spec == Init /\ [][Next]_vars
=============================================================================
