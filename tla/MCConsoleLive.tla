--------------------------- MODULE MCConsoleLive ---------------------------
(***************************************************************************)
(* Console with the fairness of its scheduling, for liveness.  The guest   *)
(* is free: it may never read or enable anything.                          *)
(***************************************************************************)
EXTENDS Console

Devices == {TTI, TTO, CLK}
Levels == [s \in Devices |-> IF s = CLK THEN 6 ELSE 4]
Slots == [s \in Devices |-> IF s = TTO THEN 2 ELSE 1]

(* The rings' readers and writers go on, half a second passes, the CPU     *)
(* loop comes to sim_process_event again and again, and that serves every  *)
(* unit in time (EventQueue, NoStarvation).                                *)
FSpec ==
    /\ CSpec
    /\ WF_convars(BeginEvents /\ Cpu) /\ WF_convars(EndEvents /\ Cpu)
    /\ SF_convars(TtiService) /\ SF_convars(TtoService)
    /\ WF_convars(TtoSent) /\ WF_convars(TerminalReceive)
    /\ WF_convars(KeySend) /\ WF_convars(HalfSecond)

-----------------------------------------------------------------------------
SerialEnds == <>[][serial' <= serial]_convars

(* A key's characters all go into the ring, also when the guest never      *)
(* reads one: the keyboard task, which serves Bluetooth too, is not        *)
(* blocked for ever by tti_svc's refusal to overwrite an unread character. *)
KeysArrive == SerialEnds => (sending > 0 ~> sending = 0)

(* The transmitter becomes ready again.                                    *)
OutputEnds == ~ttoDone ~> ttoDone
=============================================================================
