-------------------------------- MODULE Meter -------------------------------
(***************************************************************************)
(* What PAPI's high-level interface promises a program (the comments of    *)
(* papi_hl.c and the examples in them): at most one measurement at a time, *)
(* it counts the events that were asked for, it delivers every unit of     *)
(* work once, and a call that fails leaves it alone.                       *)
(***************************************************************************)
EXTENDS Integers, Sequences

CONSTANTS Codes, RateModes

VARIABLES
  session,  \* the measurement: [mode, events, work, delivered]
  reply     \* the last call and what it returned

meterVars == <<session, reply>>

Idle == [mode |-> "STOP", events |-> <<>>, work |-> 0, delivered |-> 0]

Measuring == session.mode # "STOP"

MeterInit == session = Idle /\ reply.call = "none"

Pending == session.work - session.delivered

(* The values a delivery must store: the work since the last delivery, for *)
(* each event in the order of the request.                                 *)
Delivered ==
  [i \in 1 .. Len(session.events) |->
     [code |-> session.events[i], n |-> Pending]]

(* The program computes. *)
Compute ==
  /\ session' = IF Measuring THEN [session EXCEPT !.work = @ + 1] ELSE session
  /\ reply' = reply

(* A measurement begins only when there is none. *)
Begin ==
  /\ ~Measuring
  /\ reply'.ret = "OK"
  /\ reply'.request # <<>>
  /\ \/ reply'.call = "start" /\ session'.mode = "START"
     \/ reply'.call = "rate"  /\ session'.mode \in RateModes
  /\ session' = [mode |-> session'.mode, events |-> reply'.request,
                 work |-> 0, delivered |-> 0]

(* PAPI_read_counters and PAPI_accum_counters. *)
Read ==
  /\ session.mode = "START"
  /\ reply'.ret = "OK"
  /\ reply'.call \in {"read", "accum"}
  /\ reply'.values = Delivered
  /\ session' = [session EXCEPT !.delivered = session.work]

(* A later rate call reports the totals since the first one. *)
Report ==
  /\ session.mode \in RateModes
  /\ reply'.ret = "OK"
  /\ reply'.call = "rate"
  /\ reply'.values = Delivered
  /\ reply'.ins = session.work
  /\ reply'.time = session.work
  /\ session' = [session EXCEPT !.delivered = session.work]

End ==
  /\ Measuring
  /\ reply'.ret = "OK"
  /\ reply'.call = "stop"
  /\ reply'.values = IF session.mode = "START" THEN Delivered ELSE <<>>
  /\ session' = Idle

(* A call that fails, or only asks, changes nothing. *)
Refuse ==
  /\ reply'.ret # "OK" \/ reply'.call = "num"
  /\ session' = session

MeterNext == Compute \/ Begin \/ Read \/ Report \/ End \/ Refuse

MeterSpec == MeterInit /\ [][MeterNext]_meterVars
=============================================================================
