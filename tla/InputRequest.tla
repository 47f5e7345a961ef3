--------------------------- MODULE InputRequest ---------------------------
(***************************************************************************)
(* What the input port promises the game, whatever its goroutines do: a    *)
(* request made by the game is answered once, with a command of the kind   *)
(* it asked for, or with an error that has a reason - the port is closed,  *)
(* the request's time is over, or the UI could not be synchronised - and   *)
(* the port once closed stays closed.                                      *)
(***************************************************************************)
EXTENDS Integers

CONSTANTS Commands, Numbers, Empty

VARIABLES
    asked,    \* the kind of the request in progress, or "none"
    timed,    \* has it a timeout?
    reply,    \* what the last request returned
    closed    \* is the port closed?

vars == <<asked, timed, reply, closed>>

Reply(e, c) == [err |-> e, cmd |-> c]

Init == /\ asked = "none" /\ timed = FALSE
        /\ reply = Reply("none", Empty) /\ closed = FALSE

\* a request is made, or refused at once
Ask == \E k \in {"wait", "command", "number", "raw"}, t \in BOOLEAN :
        /\ asked = "none"
        /\ timed' = t
        /\ \/ asked' = k /\ reply' = Reply("none", Empty)
           \/ closed /\ asked' = "none" /\ reply' = Reply("closed", Empty)
        /\ UNCHANGED closed

MayAnswer(k, c) == CASE k = "wait"   -> c = Empty
                     [] k = "number" -> c \in Numbers
                     [] OTHER        -> c \in Commands

MayFail(e) == \/ e = "closed"  /\ closed
              \/ e = "timeout" /\ timed
              \/ e = "sync"

Answer == /\ asked # "none"
          /\ \/ \E c \in Commands : MayAnswer(asked, c) /\ reply' = Reply("none", c)
             \/ \E e \in {"closed", "timeout", "sync"} :
                    MayFail(e) /\ reply' = Reply(e, Empty)
          /\ asked' = "none"
          /\ UNCHANGED <<timed, closed>>

Close == /\ closed' = TRUE
         /\ UNCHANGED <<asked, timed, reply>>

Next == Ask \/ Answer \/ Close

Spec == Init /\ [][Next]_vars
=============================================================================
