--------------------------- MODULE MCIncidentWindows ---------------------------
(* Instances of IncidentWindows for TLC. *)
EXTENDS IncidentWindows

CONSTANTS shop, bank, timeout, refused, pay, send

Frame(method, line, business) == [method |-> method, line |-> line, business |-> business]

\* The stack of a fault; the same fault from another build, with a framework
\* between its calls and a call below those that count.
OneBuild == <<Frame(pay, 1, TRUE), Frame(send, 1, TRUE)>>
AnotherBuild ==
  <<Frame(pay, 2, TRUE), Frame(send, 9, FALSE), Frame(send, 2, TRUE), Frame(pay, 3, TRUE)>>
\* The calls the other way round, and no calls.
OtherStacks == { <<Frame(send, 1, TRUE), Frame(pay, 1, TRUE)>>, << >> }

EventOf(service, kind, frames, when, offset) ==
  [service |-> service, exception |-> [kind |-> kind, numbers |-> when],
   frames |-> frames, at |-> when, offset |-> offset]

\* Two windows of one day and one of the next.
UtcEvents ==
  { EventOf(shop, timeout, OneBuild, when, 0) : when \in {0, 1, 2, 4} }
    \union { EventOf(shop, timeout, frames, when, 0) :
               frames \in {AnotherBuild} \union OtherStacks, when \in {1, 2} }
    \union { EventOf(bank, timeout, << >>, 4, 0), EventOf(shop, refused, << >>, 4, 0) }

\* The same fault from hosts whose clocks show the next day, the previous day,
\* and another time of the same day.
OffsetEvents ==
  { EventOf(shop, timeout, OneBuild, 1, 3), EventOf(shop, timeout, OneBuild, 4, -4),
    EventOf(shop, timeout, OneBuild, 0, 2) }

SomeEvents == UtcEvents \union OffsetEvents
=============================================================================
