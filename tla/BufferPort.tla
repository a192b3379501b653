----------------------------- MODULE BufferPort -----------------------------
(***************************************************************************)
(* What a port promises to the program that uses it, whatever its threads  *)
(* and its messages do: between mmal_port_enable and the return of         *)
(* mmal_port_disable it takes buffers and gives each of them back once,    *)
(* through the callback; disable returns only when it has none left, and   *)
(* no callback runs then or begins after it (mmal_port.h: "Disabling a port *)
(* will stop all processing on this port and return all (non-processed)    *)
(* buffer headers to the client").                                         *)
(***************************************************************************)
CONSTANTS
    Buffers,
    Callers     \* the threads that may call back

VARIABLES
    on,         \* the callback may be called
    out,        \* the buffers the port has
    calling     \* the threads inside the callback

vars == <<on, out, calling>>

Init ==
    /\ on = FALSE
    /\ out = {}
    /\ calling = {}

Enable ==
    /\ on' = TRUE
    /\ UNCHANGED <<out, calling>>

\* A buffer is taken; it may also be refused, which gives it back at once
\* without the callback and is no step of this specification.
Send(b) ==
    /\ on
    /\ b \notin out
    /\ out' = out \cup {b}
    /\ UNCHANGED <<on, calling>>

\* The callback is called, with a buffer or with an event.
CallBack(t) ==
    /\ on
    /\ t \notin calling
    /\ calling' = calling \cup {t}
    /\ \/ \E b \in out : out' = out \ {b}
       \/ UNCHANGED out
    /\ UNCHANGED on

Return(t) ==
    /\ t \in calling
    /\ calling' = calling \ {t}
    /\ UNCHANGED <<on, out>>

Disable ==
    /\ on
    /\ out = {}
    /\ calling = {}
    /\ on' = FALSE
    /\ UNCHANGED <<out, calling>>

Next ==
    \/ Enable
    \/ \E b \in Buffers : Send(b)
    \/ \E t \in Callers : CallBack(t) \/ Return(t)
    \/ Disable

Spec == Init /\ [][Next]_vars
=============================================================================
