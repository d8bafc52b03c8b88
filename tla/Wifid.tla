------------------------------- MODULE Wifid -------------------------------
(***************************************************************************)
(* Connecting to an access point: the wifid program under 2.11BSD          *)
(* (wifid/wifid.c), the commands it gives the firmware and the events it   *)
(* gets back (firmware/main/wifid.c), and the handler of the WiFi driver's *)
(* events (wifi_if_esp32.c).                                               *)
(*                                                                         *)
(* The simulator's thread runs the guest, with wifid in it, and executes   *)
(* its commands: while it sleeps in CMD_CONNECT the guest stands still.    *)
(* The event task handles driver events one at a time, and is busy while   *)
(* it sends scan results.  The driver works by itself; its functions fail  *)
(* or not as esp_wifi_* may.  The simulator takes a command, and delivers  *)
(* an event, only while it is not asleep.                                  *)
(*                                                                         *)
(* Not every command is answered: an event that finds the queue full is    *)
(* dropped, and a scan that finds nothing sends nothing, though            *)
(* wifid_iface.h:33 promises a last result.  `lost` remembers it.          *)
(***************************************************************************)
EXTENDS Integers, Sequences

CONSTANTS
    Proc,          \* wifid processes, each run once
    NoProc,
    MaxRetry,      \* MAX_RETRY
    Aps,           \* numbers of access points that a scan may find
    Size,          \* PDP11_IN_FLIGHT_PACKETS, or what other traffic leaves of it
    MaxDrops       \* how often the access point drops the station (a bound)

ASSUME WifidAssumption ==
    /\ NoProc \notin Proc
    /\ MaxRetry \in Nat \ {0} /\ Size \in Nat \ {0} /\ MaxDrops \in Nat
    /\ Aps \subseteq Nat

VARIABLES
    pc,            \* how far each wifid process is
    mode,          \* "scan" or "connect", what it was started for
    sock,          \* the process bound to PORT_RECV
    inbox,         \* datagrams at that socket
    conf,          \* the address qe0 is configured with, 0 if none
    cmds,          \* commands on their way to the firmware
    rxqueue,       \* events on their way to the guest
    asleep,        \* the simulator is in the vTaskDelay of CMD_CONNECT
    s_retry_num,
    sendError,     \* send_error_on_disconnect
    results,       \* scan results that the event task has still to send
    evq,           \* driver events that the event task has still to handle
    sta,           \* the driver: "idle", "connecting" or "up"
    scanning,
    netif,         \* LWIP's interface is up (esp_netif_action_connected)
    ip,            \* the address it got last; addresses are counted
    hasIp,
    drops,
    lost           \* history, for the properties: see Sends

guestvars == <<pc, mode, sock, inbox, conf>>
driver == <<evq, sta, scanning, netif, ip, hasIp, drops>>
vars == <<guestvars, cmds, rxqueue, asleep, s_retry_num, sendError, results, driver, lost>>

Event == [resp : {"GOT_IP", "SCAN_RES", "SCAN_RES_END", "ERROR", "QUIT"}, ip : Nat]

Ev(r) == [resp |-> r, ip |-> 0]

Init ==
    /\ pc = [p \in Proc |-> "none"] /\ mode \in [Proc -> {"scan", "connect"}]
    /\ sock = NoProc /\ inbox = << >> /\ conf = 0
    /\ cmds = << >> /\ rxqueue = << >> /\ asleep = FALSE
    /\ s_retry_num = 0 /\ sendError = FALSE /\ results = 0
    /\ evq = << >> /\ sta = "idle" /\ scanning = FALSE
    /\ netif = FALSE /\ ip = 0 /\ hasIp = FALSE /\ drops = 0
    /\ lost = [answers |-> {}, address |-> FALSE]

(* What an event does to a process in its receive loop. *)
After(state, e) ==
    CASE state = "scan" /\ e.resp = "SCAN_RES"      -> "scan"
      [] state = "connect" /\ e.resp = "GOT_IP"     -> "daemon"
      [] state = "daemon" /\ e.resp # "QUIT"        -> "daemon"
      [] OTHER                                      -> "ended"

(* The process that waits for the answer to its command, which has been    *)
(* taken and carried out. *)
Awaiting == {p \in Proc : sock = p /\ pc[p] \in {"scan", "connect"} /\ cmds' = << >> /\ ~asleep'}

(* wifi_if_wifid_send_to_pdp drops what does not fit.  What is then lost:  *)
(* the event that would have ended somebody's wait, and the address that   *)
(* was got last. *)
Sends(e) ==
    LET full == Len(rxqueue) >= Size
        ends == {p \in Awaiting : After(pc[p], e) # pc[p]}
    IN  /\ rxqueue' = IF full THEN rxqueue ELSE Append(rxqueue, e)
        /\ lost' = [answers |-> IF full THEN lost.answers \cup ends ELSE lost.answers,
                    address |-> IF e.resp = "GOT_IP" THEN full ELSE lost.address]
SendsNothing == UNCHANGED <<rxqueue, lost>>

-----------------------------------------------------------------------------
(* The wifid program. *)

(* send_quit_packet reaches whoever is bound to the port. *)
SendQuit(p) ==
    /\ ~asleep /\ pc[p] = "none"
    /\ pc' = [pc EXCEPT ![p] = "quitting"]
    /\ inbox' = IF sock = NoProc THEN inbox ELSE Append(inbox, Ev("QUIT"))
    /\ UNCHANGED <<mode, sock, conf, cmds, rxqueue, asleep>>
    /\ UNCHANGED <<s_retry_num, sendError, results, driver, lost>>

(* 100 ms later bind_sock fails if the other is still there. *)
Bind(p) ==
    /\ ~asleep /\ pc[p] = "quitting"
    /\ IF sock = NoProc
       THEN /\ sock' = p /\ inbox' = << >>
            /\ pc' = [pc EXCEPT ![p] = "bound"]
       ELSE /\ pc' = [pc EXCEPT ![p] = "ended"]
            /\ UNCHANGED <<sock, inbox>>
    /\ UNCHANGED <<mode, conf, cmds, rxqueue, asleep>>
    /\ UNCHANGED <<s_retry_num, sendError, results, driver, lost>>

SendCommand(p) ==
    /\ ~asleep /\ pc[p] = "bound"
    /\ cmds' = Append(cmds, mode[p])
    /\ pc' = [pc EXCEPT ![p] = mode[p]]
    /\ UNCHANGED <<mode, sock, inbox, conf, rxqueue, asleep>>
    /\ UNCHANGED <<s_retry_num, sendError, results, driver, lost>>

Takes(p) ==
    /\ ~asleep /\ sock = p /\ inbox # << >>
    /\ pc[p] \in {"scan", "connect", "daemon"}

(* Mutant: the daemon configures the interface only when it starts. *)
ReceiveConfiguresOnce(p) ==
    /\ Takes(p)
    /\ LET e == Head(inbox)
           next == After(pc[p], e)
       IN  /\ pc' = [pc EXCEPT ![p] = next]
           /\ conf' = IF pc[p] = "connect" /\ next = "daemon" THEN e.ip ELSE conf
           /\ sock' = IF next = "ended" THEN NoProc ELSE sock
           /\ inbox' = IF next = "ended" THEN << >> ELSE Tail(inbox)
           /\ lost' = IF next = pc[p] THEN lost ELSE [lost EXCEPT !.answers = @ \ {p}]
    /\ UNCHANGED <<mode, cmds, rxqueue, asleep, s_retry_num, sendError, results, driver>>

(* recv_wifid_evt, and what main does with the event. *)
ReceiveEvent(p) ==
    /\ Takes(p)
    /\ LET e == Head(inbox)
           next == After(pc[p], e)
       IN  /\ pc' = [pc EXCEPT ![p] = next]
           /\ conf' = IF next = "daemon" /\ e.resp = "GOT_IP" THEN e.ip ELSE conf
           /\ sock' = IF next = "ended" THEN NoProc ELSE sock
           /\ inbox' = IF next = "ended" THEN << >> ELSE Tail(inbox)
           /\ lost' = IF next = pc[p] THEN lost ELSE [lost EXCEPT !.answers = @ \ {p}]
    /\ UNCHANGED <<mode, cmds, rxqueue, asleep, s_retry_num, sendError, results, driver>>

(* The guest's network stack drops what nobody is bound to. *)
Deliver ==
    /\ ~asleep /\ rxqueue # << >>
    /\ rxqueue' = Tail(rxqueue)
    /\ inbox' = IF sock = NoProc THEN inbox ELSE Append(inbox, Head(rxqueue))
    /\ UNCHANGED <<pc, mode, sock, conf, cmds, asleep>>
    /\ UNCHANGED <<s_retry_num, sendError, results, driver, lost>>

-----------------------------------------------------------------------------
(* wifid_parse_packet, in the simulator's thread. *)

CommandScan ==
    /\ ~asleep /\ cmds # << >> /\ Head(cmds) = "scan"
    /\ cmds' = Tail(cmds)
    /\ UNCHANGED <<guestvars, asleep, s_retry_num, sendError, results>>
    /\ UNCHANGED <<evq, sta, netif, ip, hasIp, drops>>
    /\ \/ ~scanning /\ scanning' = TRUE /\ SendsNothing
       \/ (scanning \/ sta = "connecting")      \* esp_wifi_scan_start fails
              /\ Sends(Ev("ERROR")) /\ UNCHANGED scanning

(* esp_wifi_set_config may fail while the driver is connecting. *)
CommandConnectFails ==
    /\ ~asleep /\ cmds # << >> /\ Head(cmds) = "connect"
    /\ sta = "connecting"
    /\ cmds' = Tail(cmds)
    /\ UNCHANGED <<guestvars, asleep, s_retry_num, sendError, results, driver>>
    /\ Sends(Ev("ERROR"))

(* Automatic reconnection is disabled, and the station disconnected. *)
CommandConnect ==
    /\ ~asleep /\ cmds # << >> /\ Head(cmds) = "connect"
    /\ cmds' = Tail(cmds)
    /\ sendError' = FALSE
    /\ s_retry_num' = MaxRetry + 1
    /\ sta' = "idle"
    /\ evq' = IF sta = "idle" THEN evq ELSE Append(evq, "DISCONNECTED")
    /\ asleep' = TRUE
    /\ SendsNothing
    /\ UNCHANGED <<guestvars, results, scanning, netif, ip, hasIp, drops>>

(* Mutant: errors stay switched off. *)
CommandConnectEndsSilent ==
    /\ asleep /\ asleep' = FALSE
    /\ s_retry_num' = 0
    /\ sta' = IF sta = "idle" THEN "connecting" ELSE sta
    /\ UNCHANGED <<guestvars, cmds, sendError, results>>
    /\ UNCHANGED <<evq, scanning, netif, ip, hasIp, drops>>
    /\ IF sta = "idle" THEN SendsNothing ELSE Sends(Ev("ERROR"))

(* A second later.  esp_wifi_connect fails unless the station is idle. *)
CommandConnectEnds ==
    /\ asleep /\ asleep' = FALSE
    /\ s_retry_num' = 0
    /\ sendError' = TRUE
    /\ sta' = IF sta = "idle" THEN "connecting" ELSE sta
    /\ UNCHANGED <<guestvars, cmds, results>>
    /\ UNCHANGED <<evq, scanning, netif, ip, hasIp, drops>>
    /\ IF sta = "idle" THEN SendsNothing ELSE Sends(Ev("ERROR"))

-----------------------------------------------------------------------------
(* sta_event_handler, in the event task. *)

Handles(e) == results = 0 /\ evq # << >> /\ Head(evq) = e /\ evq' = Tail(evq)

HandleDisconnected ==
    /\ Handles("DISCONNECTED")
    /\ netif' = FALSE /\ hasIp' = FALSE
    /\ UNCHANGED <<guestvars, cmds, asleep, sendError, results, scanning, ip, drops>>
    /\ \/ /\ s_retry_num < MaxRetry
          /\ s_retry_num' = s_retry_num + 1
          /\ sta' = IF sta = "idle" THEN "connecting" ELSE sta
          /\ SendsNothing
       \/ /\ s_retry_num >= MaxRetry
          /\ IF sendError THEN Sends(Ev("ERROR")) ELSE SendsNothing
          /\ UNCHANGED <<s_retry_num, sta>>

HandleConnected ==
    /\ Handles("CONNECTED")
    /\ netif' = TRUE
    /\ s_retry_num' = 0
    /\ SendsNothing
    /\ UNCHANGED <<guestvars, cmds, asleep, sendError, results>>
    /\ UNCHANGED <<sta, scanning, ip, hasIp, drops>>

HandleGotIp ==
    /\ Handles("GOT_IP")
    /\ UNCHANGED <<guestvars, cmds, asleep, s_retry_num, sendError, results>>
    /\ UNCHANGED <<sta, scanning, netif, ip, hasIp, drops>>
    /\ Sends([resp |-> "GOT_IP", ip |-> ip])

(* Without results there is no last one to be marked. *)
HandleScanDone ==
    /\ Handles("SCAN_DONE")
    /\ results' \in Aps
    /\ UNCHANGED <<guestvars, cmds, rxqueue, asleep, s_retry_num, sendError>>
    /\ UNCHANGED <<sta, scanning, netif, ip, hasIp, drops>>
    /\ lost' = IF results' > 0 THEN lost
               ELSE [lost EXCEPT !.answers = @ \cup {p \in Awaiting : pc[p] = "scan"}]

(* Mutant: the last result is marked too late. *)
SendResultNoEnd ==
    /\ results > 0
    /\ results' = results - 1
    /\ UNCHANGED <<guestvars, cmds, asleep, s_retry_num, sendError, driver>>
    /\ Sends(Ev(IF results = 0 THEN "SCAN_RES_END" ELSE "SCAN_RES"))

(* The loop of wifid_signal_scan_done, with its delays. *)
SendResult ==
    /\ results > 0
    /\ results' = results - 1
    /\ UNCHANGED <<guestvars, cmds, asleep, s_retry_num, sendError, driver>>
    /\ Sends(Ev(IF results = 1 THEN "SCAN_RES_END" ELSE "SCAN_RES"))

-----------------------------------------------------------------------------
(* The driver and the native stack. *)

others == <<guestvars, cmds, rxqueue, asleep, s_retry_num, sendError, results, lost>>

ConnectSucceeds ==
    /\ sta = "connecting" /\ sta' = "up"
    /\ evq' = Append(evq, "CONNECTED")
    /\ UNCHANGED <<others, scanning, netif, ip, hasIp, drops>>

ConnectFails ==
    /\ sta = "connecting" /\ sta' = "idle"
    /\ evq' = Append(evq, "DISCONNECTED")
    /\ UNCHANGED <<others, scanning, netif, ip, hasIp, drops>>

ApDrops ==
    /\ sta = "up" /\ drops < MaxDrops
    /\ drops' = drops + 1
    /\ sta' = "idle"
    /\ evq' = Append(evq, "DISCONNECTED")
    /\ UNCHANGED <<others, scanning, netif, ip, hasIp>>

DhcpSucceeds ==
    /\ sta = "up" /\ netif /\ ~hasIp
    /\ hasIp' = TRUE
    /\ ip' = ip + 1
    /\ evq' = Append(evq, "GOT_IP")
    /\ UNCHANGED <<others, sta, scanning, netif, drops>>

ScanFinishes ==
    /\ scanning /\ scanning' = FALSE
    /\ evq' = Append(evq, "SCAN_DONE")
    /\ UNCHANGED <<others, sta, netif, ip, hasIp, drops>>

Guest == \E p \in Proc : SendQuit(p) \/ Bind(p) \/ SendCommand(p) \/ ReceiveEvent(p)
Commands == CommandScan \/ CommandConnect \/ CommandConnectFails
Handler ==
    \/ HandleDisconnected \/ HandleConnected \/ HandleGotIp \/ HandleScanDone
    \/ SendResult
Driver ==
    \/ ConnectSucceeds \/ ConnectFails \/ ApDrops \/ DhcpSucceeds \/ ScanFinishes

Next == Guest \/ Deliver \/ Commands \/ CommandConnectEnds \/ Handler \/ Driver

Spec == Init /\ [][Next]_vars

(* Threads and processes that have started go on; an attempt to connect, a *)
(* scan and DHCP end.  When wifid is started, and when the access point    *)
(* fails, is nobody's duty.                                                *)
FairSpec ==
    /\ Spec
    /\ \A p \in Proc : WF_vars(Bind(p) \/ SendCommand(p) \/ ReceiveEvent(p))
    /\ WF_vars(Deliver) /\ WF_vars(Commands) /\ WF_vars(CommandConnectEnds)
    /\ WF_vars(Handler)
    /\ WF_vars(ConnectSucceeds \/ ConnectFails)
    /\ WF_vars(DhcpSucceeds) /\ WF_vars(ScanFinishes)

-----------------------------------------------------------------------------

(* A wifid -connect is answered: it becomes a daemon or is told why not,   *)
(* whatever attempts, retries and events of an earlier connection its      *)
(* command runs into, unless the answer found the queue full.              *)
ConnectAnswered ==
    \A p \in Proc : pc[p] = "connect" ~> pc[p] # "connect" \/ p \in lost.answers

(* A wifid -scan ends, unless its scan found no access point or the last   *)
(* result found the queue full.  Then it waits until a stray event comes.  *)
ScanEnds ==
    \A p \in Proc : pc[p] = "scan" ~> pc[p] # "scan" \/ p \in lost.answers

(* While a daemon stays and the link stays up, qe0 comes to have the       *)
(* address that DHCP gave last, unless that address found the queue full.  *)
InterfaceFollowsLink ==
    \A p \in Proc :
        <>[](pc[p] = "daemon" /\ hasIp /\ ~lost.address) => <>[](conf = ip)
=============================================================================
