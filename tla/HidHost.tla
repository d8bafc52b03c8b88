------------------------------ MODULE HidHost ------------------------------
(***************************************************************************)
(* The Bluetooth host of the keyboard task: hci_server.cpp (the commands   *)
(* and events of the controller, and L2CAP channels over its links) and    *)
(* hid_server.cpp (what happens to an input device from being found to     *)
(* delivering reports).                                                    *)
(*                                                                         *)
(* The keyboard task runs hci_update and hid_get in turn; the controller   *)
(* puts packets into _rx and takes them from _tx at its own pace.  The     *)
(* handlers are functions from one host record to the next, because they   *)
(* call each other: an event changes a BTDevice, calls back into its       *)
(* InputDevice, which opens a socket and queues a command.                 *)
(*                                                                         *)
(* A device's address stands for the handle of its link as well.  Packets  *)
(* come whole: reassembly is left out, and so is dongle_bug, since this    *)
(* transport delivers events and data in order.                            *)
(***************************************************************************)
EXTENDS Integers, Sequences, FiniteSets, SequencesExt

CONSTANTS
    Dev,           \* devices in reach
    Input,         \* those whose class is_input_device accepts
    QSIZE,         \* places in a PacketQ
    Parts,         \* answers that make up an SDP record
    MaxPage,       \* bound: how often each device connects by itself
    MaxDrop,       \* bound: links and channels lost, and failed steps
    MaxReport      \* bound: reports a device sends on one link

ASSUME HidHostAssumption ==
    /\ Input \subseteq Dev
    /\ QSIZE \in Nat \ {0} /\ Parts \in Nat \ {0}
    /\ MaxPage \in Nat /\ MaxDrop \in Nat /\ MaxReport \in Nat

Psm == {"SDP", "CONTROL", "INTERRUPT"}
NoHandle == "none"                    \* _handle = -1
InProgress == "progress"              \* _handle = 0

VARIABLES
    host,     \* what the keyboard task keeps: see HostInit
    rx,       \* HCI::_rx
    ctl,      \* the controller: scanning for pages, inquiring, devices found
    link,     \* per device: its link and the far end of its channels
    keys,     \* link keys in flash
    lost,     \* how many of MaxDrop have happened
    report    \* the report hid_get returned last, or none: a sequence

vars == <<host, rx, ctl, link, keys, lost, report>>

NoChannel == [st |-> "none", cid |-> 0, asked |-> FALSE, agreed |-> FALSE]

(* bt holds the BTDevices, idev the InputDevices, list the order in which  *)
(* the latter were added.  Of _state only "reset asked for" and            *)
(* MASK_INQUIRY are ever tested, of _flags only the signals seen.  opened  *)
(* and twice are history: the services for which this end has made a       *)
(* socket on the present link, and whether it did so again.                *)
HostInit ==
    [started |-> FALSE, inquiry |-> FALSE, tx |-> << >>, cid |-> 64,
     bt   |-> [d \in Dev |-> [known |-> FALSE, handle |-> NoHandle, flags |-> {},
                             opened |-> {}, twice |-> FALSE]],
     sock |-> [c \in {} |-> 0],
     idev |-> [d \in Dev |-> [state |-> "CLOSED", reconnect |-> FALSE, sdp |-> 0,
                              control |-> 0, interrupt |-> 0, parse |-> << >>]],
     list |-> << >>]

LinkInit == [st |-> "down", byDevice |-> FALSE, auth |-> FALSE, no |-> 0, pages |-> 0,
             sent |-> 0, naming |-> FALSE, ch |-> [p \in Psm |-> NoChannel]]

Init ==
    /\ host = HostInit
    /\ rx = << >>
    /\ ctl = [scan |-> FALSE, inquiring |-> FALSE, found |-> {}]
    /\ link = [d \in Dev |-> LinkInit]
    /\ keys \in SUBSET Dev
    /\ lost = 0 /\ report = << >>

-----------------------------------------------------------------------------
(* Packets out.  A full queue drops what is written to it.                 *)
Enqueued(q, p) == IF Len(q) < QSIZE THEN Append(q, p) ELSE q
Write(h, p) == [h EXCEPT !.tx = Enqueued(@, p)]
Cmd(h, c, d) == Write(h, [cmd |-> c, dev |-> d])
Acl(h, d, c, a, b) ==
    Write(h, [cmd |-> c, dev |-> h.bt[d].handle, a |-> a, b |-> b])

OwnSockets(h, d) == {c \in DOMAIN h.sock : h.sock[c].dev = d}

(* Mutant: a socket with packets in its queue stays for their reader.      *)
EraseDrained(h, cs) ==
    [h EXCEPT !.sock = [c \in {x \in DOMAIN @ : x \notin cs \/ @[x].q # << >>} |-> @[c]]]

Erase(h, cs) == [h EXCEPT !.sock = [c \in DOMAIN @ \ cs |-> @[c]]]

(* Mutant: the continuation state is off by one.                           *)
ServiceSearchAgain(h, d) ==
    LET s == h.idev[d].parse[1].sock IN
    IF s \in DOMAIN h.sock
      THEN Acl(h, d, "SEARCH", h.sock[s].dcid, IF h.idev[d].parse[1].buf = << >> THEN 1
                                               ELSE Len(h.idev[d].parse[1].buf))
      ELSE h

(* SDPParse::service_search: ask for the part after those already here.    *)
ServiceSearch(h, d) ==
    LET s == h.idev[d].parse[1].sock IN
    IF s \in DOMAIN h.sock
      THEN Acl(h, d, "SEARCH", h.sock[s].dcid, Len(h.idev[d].parse[1].buf) + 1)
      ELSE h

StartSdp(h, d) ==
    ServiceSearch([h EXCEPT !.idev[d].parse = <<[sock |-> h.idev[d].sdp, buf |-> << >>]>>], d)

(* L2CAPSocket::set_state, and InputDevice::socket_changed, which it calls.*)
SetState(h, c, st) ==
    LET d == h.sock[c].dev
        g == [h EXCEPT !.sock[c].state = st]
    IN  IF d \in ToSet(h.list) /\ c = h.idev[d].sdp /\ st = "OPEN"
          THEN StartSdp(g, d) ELSE g

(* BTDevice::l2_open; the new channel's number is the old h.cid.           *)
L2Open(h, d, psm, listen) ==
    LET c == h.cid
        s == [dev |-> d, psm |-> psm, dcid |-> "0", state |-> "NONE", q |-> << >>]
        g == [h EXCEPT !.cid = c + 1,
                       !.bt[d].opened = @ \cup {psm},
                       !.bt[d].twice = @ \/ psm \in h.bt[d].opened,
                       !.sock = [x \in DOMAIN @ \cup {c} |-> IF x = c THEN s ELSE @[x]]]
    IN  IF listen THEN SetState(g, c, "LISTENING")
                  ELSE SetState(Acl(g, d, "CONN_REQ", psm, c), c, "OPENING")

(* l2_close of this end: say so when the channel is open, forget it.       *)
L2Close(h, c) ==
    IF c \notin DOMAIN h.sock THEN h
    ELSE LET s == h.sock[c]
             g == IF s.state = "OPEN" THEN Acl(h, s.dev, "DISCONN_REQ", s.dcid, c) ELSE h
         IN  Erase(g, {c})

-----------------------------------------------------------------------------
(* L2CAP signals: BTDevice::control.                                       *)

Handshake == {"CONN_RSP", "CONF_REQ", "CONF_RSP"}

CheckOpen(h, d, c) ==
    IF /\ c \in OwnSockets(h, d)
       /\ "CONN_REQ" \notin h.bt[d].flags /\ Handshake \subseteq h.bt[d].flags
      THEN SetState(h, c, "OPEN") ELSE h

ConfigureRequest(h, d, c) == Acl(h, d, "CONF_REQ", h.sock[c].dcid, 0)

(* Mutant: the answer is not followed by a configuration request.          *)
AnswerOnly(h, d, psm) ==
    LET cs == SetToSortSeq({c \in OwnSockets(h, d) : h.sock[c].psm = psm}, <)
        One(g, c) == SetState([Acl(g, d, "CONN_RSP", c, psm) EXCEPT !.sock[c].dcid = psm],
                              c, "OPENING")
    IN  FoldLeft(One, h, cs)

(* A connection from the device: every socket for that service answers.    *)
Answer(h, d, psm) ==
    LET cs == SetToSortSeq({c \in OwnSockets(h, d) : h.sock[c].psm = psm}, <)
        One(g, c) == ConfigureRequest(
                        SetState([Acl(g, d, "CONN_RSP", c, psm) EXCEPT !.sock[c].dcid = psm],
                                 c, "OPENING"), d, c)
    IN  FoldLeft(One, h, cs)

Control(h0, d, p) ==
    LET h == [h0 EXCEPT !.bt[d].flags = @ \cup {p.cmd}]
        mine == p.cid \in OwnSockets(h, d)
    IN  CASE p.cmd = "CONN_RSP" /\ p.ok /\ mine ->
                ConfigureRequest([h EXCEPT !.sock[p.cid].dcid = p.psm], d, p.cid)
          [] p.cmd = "CONN_RSP" /\ ~p.ok /\ mine -> SetState(h, p.cid, "CLOSED")
          [] p.cmd = "CONF_RSP" -> CheckOpen(h, d, p.cid)
          [] p.cmd = "CONF_REQ" /\ mine ->
                CheckOpen(Acl(h, d, "CONF_RSP", h.sock[p.cid].dcid, 0), d, p.cid)
          [] p.cmd = "DISCONN_REQ" ->
                Acl(Erase(h, {p.cid} \cap OwnSockets(h, d)), d, "DISCONN_RSP", p.psm, p.cid)
          [] p.cmd = "DISCONN_RSP" -> L2Close(h, p.cid)
          [] p.cmd = "CONN_REQ" -> Answer(h, d, p.psm)
          [] OTHER -> h

(* Inbound data: to the queue of its socket, if there is one with room.    *)
Data(h, d, p) ==
    IF p.cid \in OwnSockets(h, d)
      THEN [h EXCEPT !.sock[p.cid].q = Enqueued(@, p.data)] ELSE h

-----------------------------------------------------------------------------
(* What the InputDevice does when the HCI calls back.                      *)

(* A link that is there or in progress is not asked for again.             *)
CreateConnection(h, d) ==
    IF h.bt[d].handle # NoHandle THEN h
    ELSE Cmd([h EXCEPT !.bt[d].flags = {}, !.bt[d].handle = InProgress], "CREATE_CONNECTION", d)

Connect(h, d) ==
    CreateConnection([h EXCEPT !.idev[d].reconnect = FALSE, !.idev[d].state = "CONNECT"], d)

(* Mutant: the channels' numbers are mixed up.                             *)
OpenBothMixed(h, d, listen) ==
    LET g == L2Open([h EXCEPT !.idev[d].interrupt = h.cid], d, "CONTROL", listen)
    IN  L2Open([g EXCEPT !.idev[d].control = g.cid], d, "INTERRUPT", listen)

OpenBoth(h, d, listen) ==
    LET g == L2Open([h EXCEPT !.idev[d].control = h.cid], d, "CONTROL", listen)
    IN  L2Open([g EXCEPT !.idev[d].interrupt = g.cid], d, "INTERRUPT", listen)

ConnectionComplete(h, d) ==
    LET g == IF h.idev[d].reconnect THEN OpenBoth(h, d, TRUE) ELSE h
    IN  [Cmd(g, "REMOTE_NAME_REQUEST", d) EXCEPT !.idev[d].state = "READING_NAME"]

AuthenticationRequested(h, d) ==
    IF h.bt[d].handle # NoHandle THEN Cmd(h, "AUTHENTICATION_REQUESTED", h.bt[d].handle) ELSE h

RemoteName(h, d) ==
    CASE h.idev[d].reconnect -> [h EXCEPT !.idev[d].state = "OPENING"]
      [] ~h.idev[d].reconnect /\ d \in keys ->
            [AuthenticationRequested(h, d) EXCEPT !.idev[d].state = "AUTHENTICATING"]
      [] OTHER ->
            L2Open([h EXCEPT !.idev[d].sdp = h.cid, !.idev[d].state = "READING_SDP"],
                   d, "SDP", FALSE)

AuthenticationComplete(h, d) ==
    IF h.idev[d].reconnect THEN h ELSE OpenBoth(h, d, FALSE)

(* The device wants a connection. *)
ConnectionRequest(h, d) ==
    Cmd([h EXCEPT !.idev[d].reconnect = TRUE], "ACCEPT_CONNECTION_REQUEST", d)

DisconnectionComplete(h, d) ==
    LET closed == L2Close(L2Close(L2Close(h, h.idev[d].sdp), h.idev[d].control),
                          h.idev[d].interrupt)
    IN  [closed EXCEPT !.idev[d].reconnect = FALSE, !.idev[d].control = 0,
                       !.idev[d].interrupt = 0, !.idev[d].state = "CLOSED"]

(* The class of a device says whether it is an input device.               *)
AddInput(h, d) ==
    [h EXCEPT !.list = IF d \in Input /\ d \notin ToSet(@) THEN Append(@, d) ELSE @]

(* HIDSource::cb: what the HCI tells reaches the input devices.            *)
Callback(h, evt, d) ==
    LET hid == d \in ToSet(h.list) IN
    CASE evt = "INQUIRY_RESULT" -> AddInput(h, d)
      [] evt = "INQUIRY_DONE" -> FoldLeft(Connect, h, h.list)
      [] evt = "CONNECTION_REQUEST" -> IF d \in Input THEN ConnectionRequest(AddInput(h, d), d) ELSE h
      [] evt = "CONNECTION_COMPLETE" /\ hid -> ConnectionComplete(h, d)
      [] evt = "DISCONNECTION_COMP" /\ hid -> DisconnectionComplete(h, d)
      [] evt = "REMOTE_NAME" /\ hid -> RemoteName(h, d)
      [] evt = "AUTHENTICATION_COMPLETE" /\ hid -> AuthenticationComplete(h, d)
      [] OTHER -> h

-----------------------------------------------------------------------------
(* HCI::hci: the controller's events.                                      *)

(* BTDevice::disconnect_all: forget the link's sockets and its marks.      *)
DisconnectAll(h, d) ==
    [Erase(h, OwnSockets(h, d)) EXCEPT !.bt[d].handle = NoHandle, !.bt[d].flags = {},
                                   !.bt[d].opened = {}, !.bt[d].twice = FALSE]

(* add_device: its handle is -1 until it is connected.                     *)
AddDevice(h, d) == [h EXCEPT !.bt[d].known = TRUE]

(* connection_complete, of a device that is known.                         *)
Linked(h, d, ok) ==
    CASE ~h.bt[d].known -> h
      [] h.bt[d].known /\ ok -> Callback([h EXCEPT !.bt[d].handle = d], "CONNECTION_COMPLETE", d)
      [] h.bt[d].known /\ ~ok -> [h EXCEPT !.bt[d].handle = NoHandle]

StartInquiring(h) == IF h.inquiry THEN h ELSE Cmd([h EXCEPT !.inquiry = TRUE], "INQUIRY", 0)

CommandComplete(h, c) ==
    CASE c = "RESET" -> Cmd(h, "READ_BUFFER_SIZE", 0)
      [] c = "READ_BUFFER_SIZE" -> Cmd(h, "READ_BD_ADDR", 0)
      [] c = "READ_BD_ADDR" -> Cmd(h, "WRITE_SCAN_ENABLE", 0)
      [] c = "WRITE_SCAN_ENABLE" -> StartInquiring(h)

Event(h, p) ==
    LET d == p.dev
        up  == h.bt[d].handle = d        \* get_device_by_handle finds it
    IN  CASE p.evt = "COMMAND_COMPLETE" -> CommandComplete(h, p.c)
          [] p.evt = "INQUIRY_RESULT" -> Callback(AddDevice(h, d), "INQUIRY_RESULT", d)
          [] p.evt = "INQUIRY_COMP" -> Callback([h EXCEPT !.inquiry = FALSE], "INQUIRY_DONE", d)
          [] p.evt = "CONNECTION_REQUEST" -> Callback(AddDevice(h, d), "CONNECTION_REQUEST", d)
          [] p.evt = "CONNECTION_COMP" -> Linked(h, d, p.ok)
          [] p.evt = "DISCONNECTION_COMP" /\ up -> Callback(DisconnectAll(h, d), "DISCONNECTION_COMP", d)
          [] p.evt = "RMT_NAME_REQUEST_COMP" -> Callback(h, "REMOTE_NAME", d)
          [] p.evt = "AUTHENTICATION_COMP" /\ up -> Callback(h, "AUTHENTICATION_COMPLETE", d)
          [] p.evt = "LINK_KEY_REQUEST" /\ h.bt[d].known ->
                Cmd(h, IF d \in keys THEN "LINK_KEY_REPLY" ELSE "LINK_KEY_NEG_REPLY", d)
          [] p.evt = "PIN_CODE_REQUEST" -> Cmd(h, "PIN_CODE_REPLY", d)
          [] p.evt = "SIGNAL" /\ up -> Control(h, d, p)
          [] p.evt = "DATA" /\ up -> Data(h, d, p)
          [] OTHER -> h
-----------------------------------------------------------------------------
(* hid_get: one report at most; a device without one gets its SDP read.    *)

(* l2_recv, on a socket that exists and has a packet.                      *)
HasPacket(h, c) == c \in DOMAIN h.sock /\ h.sock[c].q # << >>
Received(h, c) == [h EXCEPT !.sock[c].q = Tail(@)]

UpdateSdp(h, d) ==
    IF h.idev[d].parse = << >> THEN h
    ELSE LET s == h.idev[d].parse[1].sock IN
         IF ~HasPacket(h, s) THEN h
         ELSE LET p == Head(h.sock[s].q)
                  g == [Received(h, s) EXCEPT !.idev[d].parse[1].buf = Append(@, p)]
              IN  IF p.n < Parts THEN ServiceSearch(g, d)
                  ELSE AuthenticationRequested(
                         [L2Close([g EXCEPT !.idev[d].parse = << >>], g.idev[d].sdp)
                            EXCEPT !.idev[d].sdp = 0, !.idev[d].state = "AUTHENTICATING"], d)

Poll(acc, d) ==
    LET h == acc.h
        c == h.idev[d].interrupt
        dead == c # 0 /\ c \notin DOMAIN h.sock
        g == IF dead THEN DisconnectionComplete(h, d) ELSE h
    IN  CASE acc.got # << >> -> acc
          [] acc.got = << >> /\ HasPacket(h, c) ->
                [h |-> Received(h, c), got |-> <<Head(h.sock[c].q)>>]
          [] OTHER -> [acc EXCEPT !.h = IF g.idev[d].sdp # 0 THEN UpdateSdp(g, d) ELSE g]

Get ==
    LET r == FoldLeft(Poll, [h |-> host, got |-> << >>], host.list) IN
    /\ r # [h |-> host, got |-> << >>]
    /\ host' = r.h /\ report' = r.got
    /\ UNCHANGED <<rx, ctl, link, keys, lost>>

(* hci_update handles one packet; the link key goes to flash.              *)
Handle ==
    /\ rx # << >>
    /\ host' = Event(host, Head(rx)) /\ rx' = Tail(rx)
    /\ keys' = IF Head(rx).evt = "LINK_KEY_NOTIFICATION" THEN keys \cup {Head(rx).dev} ELSE keys
    /\ UNCHANGED <<ctl, link, lost, report>>

(* ready_to_send, called by the controller's task.                         *)
ReadyToSend ==
    /\ ~host.started
    /\ host' = Cmd([host EXCEPT !.started = TRUE], "RESET", 0)
    /\ UNCHANGED <<rx, ctl, link, keys, lost, report>>

-----------------------------------------------------------------------------
(* The controller and the devices, from what the code expects of them.     *)

Deliver(ps) == rx' = FoldLeft(Enqueued, rx, ps)              \* HCI::packet
Ev(e, d) == [evt |-> e, dev |-> d]
Signal(d, c, cid, psm, ok) ==
    [evt |-> "SIGNAL", dev |-> d, cmd |-> c, cid |-> cid, psm |-> psm, ok |-> ok]
Content(d, n) == [link |-> link[d].no, n |-> n]
Inbound(d, cid, n) == [evt |-> "DATA", dev |-> d, cid |-> cid, data |-> Content(d, n)]

MayFail == lost < MaxDrop
Fails == MayFail /\ lost' = lost + 1

LinkUp(d, by) ==
    link' = [link EXCEPT ![d] = [@ EXCEPT !.st = "up", !.byDevice = by, !.auth = FALSE,
                                          !.no = @ + 1, !.sent = 0,
                                          !.ch = [p \in Psm |-> NoChannel]]]

Completed(d, ok) == Deliver(<<[evt |-> "CONNECTION_COMP", dev |-> d, ok |-> ok]>>)

SetUp == {"RESET", "READ_BUFFER_SIZE", "READ_BD_ADDR", "WRITE_SCAN_ENABLE"}

Initialise(p) ==
    /\ p.cmd \in SetUp
    /\ Deliver(<<[evt |-> "COMMAND_COMPLETE", dev |-> 0, c |-> p.cmd]>>)
    /\ ctl' = [ctl EXCEPT !.scan = @ \/ p.cmd = "WRITE_SCAN_ENABLE"]
    /\ UNCHANGED <<link, lost>>

StartInquiry(p) ==
    /\ p.cmd = "INQUIRY"
    /\ ctl' = [ctl EXCEPT !.inquiring = TRUE]
    /\ UNCHANGED <<rx, link, lost>>

(* A create for a link that exists already is refused by its status only.  *)
Create(p) ==
    /\ p.cmd = "CREATE_CONNECTION"
    /\ \/ /\ link[p.dev].st = "down"
          /\ \/ LinkUp(p.dev, FALSE) /\ Completed(p.dev, TRUE) /\ UNCHANGED lost
             \/ Fails /\ Completed(p.dev, FALSE) /\ UNCHANGED link
       \/ link[p.dev].st # "down" /\ UNCHANGED <<rx, link, lost>>
    /\ UNCHANGED ctl

Accept(p) ==
    /\ p.cmd = "ACCEPT_CONNECTION_REQUEST"
    /\ IF link[p.dev].st = "paging" THEN LinkUp(p.dev, TRUE) /\ Completed(p.dev, TRUE)
                                    ELSE UNCHANGED <<rx, link>>
    /\ UNCHANGED <<ctl, lost>>

AskName(p) ==
    /\ p.cmd = "REMOTE_NAME_REQUEST"
    /\ link' = [link EXCEPT ![p.dev].naming = TRUE]
    /\ UNCHANGED <<rx, ctl, lost>>

Authenticated(d, before) ==
    \/ /\ Deliver(before \o <<Ev("AUTHENTICATION_COMP", d)>>)
       /\ link' = [link EXCEPT ![d].auth = TRUE] /\ UNCHANGED lost
    \/ Fails /\ Deliver(<<Ev("AUTHENTICATION_COMP", d)>>) /\ UNCHANGED link

Authenticate(p) ==
    /\ p.cmd \in {"AUTHENTICATION_REQUESTED", "LINK_KEY_REPLY", "LINK_KEY_NEG_REPLY", "PIN_CODE_REPLY"}
    /\ IF p.dev \notin Dev \/ link[p.dev].st # "up" THEN UNCHANGED <<rx, link, lost>>
       ELSE CASE p.cmd = "AUTHENTICATION_REQUESTED" ->
                    Deliver(<<Ev("LINK_KEY_REQUEST", p.dev)>>) /\ UNCHANGED <<link, lost>>
              [] p.cmd = "LINK_KEY_NEG_REPLY" ->
                    Deliver(<<Ev("PIN_CODE_REQUEST", p.dev)>>) /\ UNCHANGED <<link, lost>>
              [] p.cmd = "LINK_KEY_REPLY" -> Authenticated(p.dev, << >>)
              [] OTHER -> Authenticated(p.dev, <<Ev("LINK_KEY_NOTIFICATION", p.dev)>>)
    /\ UNCHANGED ctl

Channel(d, psm, ch) == link' = [link EXCEPT ![d].ch[psm] = ch]
Open(ch) == ch.st = "sent" /\ ch.asked /\ ch.agreed

(* What a device does with a signal or with a search of its SDP server.    *)
FarEnd(p) ==
    LET d == p.dev
        psm == IF p.cmd = "CONN_RSP" THEN p.b ELSE p.a
        ch == link[d].ch[psm]
    IN
    /\ "a" \in DOMAIN p
    /\ IF d \notin Dev \/ psm \notin Psm \/ (d \in Dev /\ link[d].st # "up")
       THEN UNCHANGED <<rx, link>>
       ELSE CASE p.cmd = "CONN_REQ" /\ ch.st = "none" /\ (psm = "SDP" \/ link[d].auth) ->
                    /\ Channel(d, psm, [NoChannel EXCEPT !.st = "config", !.cid = p.b])
                    /\ Deliver(<<Signal(d, "CONN_RSP", p.b, psm, TRUE)>>)
              [] p.cmd = "CONN_REQ" /\ ~(ch.st = "none" /\ (psm = "SDP" \/ link[d].auth)) ->
                    Deliver(<<Signal(d, "CONN_RSP", p.b, psm, FALSE)>>) /\ UNCHANGED link
              [] p.cmd = "CONN_RSP" /\ ch.st = "wait" ->
                    Channel(d, psm, [ch EXCEPT !.st = "config", !.cid = p.a]) /\ UNCHANGED rx
              [] p.cmd = "CONF_REQ" /\ ch.st \in {"config", "sent"} ->
                    /\ Channel(d, psm, [ch EXCEPT !.asked = TRUE])
                    /\ Deliver(<<Signal(d, "CONF_RSP", ch.cid, psm, TRUE)>>)
              [] p.cmd = "CONF_RSP" /\ ch.st = "sent" ->
                    Channel(d, psm, [ch EXCEPT !.agreed = TRUE]) /\ UNCHANGED rx
              [] p.cmd = "DISCONN_REQ" /\ ch.st # "none" /\ ch.cid = p.b ->
                    /\ Channel(d, psm, NoChannel)
                    /\ Deliver(<<Signal(d, "DISCONN_RSP", p.b, psm, TRUE)>>)
              [] p.cmd = "DISCONN_RSP" /\ ch.st = "closing" ->
                    Channel(d, psm, NoChannel) /\ UNCHANGED rx
              [] p.cmd = "SEARCH" /\ Open(ch) ->
                    Deliver(<<Inbound(d, ch.cid, p.b)>>) /\ UNCHANGED link
              [] OTHER -> UNCHANGED <<rx, link>>
    /\ UNCHANGED <<ctl, lost>>

Take ==
    /\ host.tx # << >>
    /\ host' = [host EXCEPT !.tx = Tail(@)]
    /\ LET p == Head(host.tx) IN
       \/ Initialise(p) \/ StartInquiry(p) \/ Create(p) \/ Accept(p) \/ AskName(p)
       \/ Authenticate(p) \/ FarEnd(p)
    /\ UNCHANGED <<keys, report>>

-----------------------------------------------------------------------------
(* On their own account.                                                   *)

Found(d) ==
    /\ ctl.inquiring /\ d \notin ctl.found
    /\ ctl' = [ctl EXCEPT !.found = @ \cup {d}]
    /\ Deliver(<<Ev("INQUIRY_RESULT", d)>>)
    /\ UNCHANGED <<host, link, keys, lost, report>>

InquiryOver ==
    /\ ctl.inquiring
    /\ ctl' = [ctl EXCEPT !.inquiring = FALSE]
    /\ Deliver(<<Ev("INQUIRY_COMP", 0)>>)
    /\ UNCHANGED <<host, link, keys, lost, report>>

Named(d) ==
    /\ link[d].naming
    /\ link' = [link EXCEPT ![d].naming = FALSE]
    /\ Deliver(<<Ev("RMT_NAME_REQUEST_COMP", d)>>)
    /\ UNCHANGED <<host, ctl, keys, lost, report>>

Page(d) ==
    /\ ctl.scan /\ link[d].st = "down" /\ link[d].pages < MaxPage
    /\ link' = [link EXCEPT ![d].st = "paging", ![d].pages = @ + 1]
    /\ Deliver(<<Ev("CONNECTION_REQUEST", d)>>)
    /\ UNCHANGED <<host, ctl, keys, lost, report>>

PageGivenUp(d) ==
    /\ link[d].st = "paging" /\ Fails
    /\ link' = [link EXCEPT ![d].st = "down"]
    /\ Completed(d, FALSE)
    /\ UNCHANGED <<host, ctl, keys, report>>

Drop(d) ==
    /\ link[d].st = "up" /\ Fails
    /\ link' = [link EXCEPT ![d].st = "down", ![d].ch = [p \in Psm |-> NoChannel]]
    /\ Deliver(<<Ev("DISCONNECTION_COMP", d)>>)
    /\ UNCHANGED <<host, ctl, keys, report>>

(* A device that made the link opens the channels, control first.          *)
FarOpens(d, psm) ==
    /\ link[d].st = "up" /\ link[d].byDevice
    /\ link[d].ch[psm].st = "none"
    /\ psm = "CONTROL" \/ (psm = "INTERRUPT" /\ Open(link[d].ch["CONTROL"]))
    /\ Channel(d, psm, [NoChannel EXCEPT !.st = "wait"])
    /\ Deliver(<<Signal(d, "CONN_REQ", 0, psm, TRUE)>>)
    /\ UNCHANGED <<host, ctl, keys, lost, report>>

FarConfigures(d, psm) ==
    /\ link[d].ch[psm].st = "config"
    /\ Channel(d, psm, [link[d].ch[psm] EXCEPT !.st = "sent"])
    /\ Deliver(<<Signal(d, "CONF_REQ", link[d].ch[psm].cid, psm, TRUE)>>)
    /\ UNCHANGED <<host, ctl, keys, lost, report>>

FarCloses(d, psm) ==
    /\ Open(link[d].ch[psm]) /\ Fails
    /\ Channel(d, psm, [link[d].ch[psm] EXCEPT !.st = "closing"])
    /\ Deliver(<<Signal(d, "DISCONN_REQ", link[d].ch[psm].cid, psm, TRUE)>>)
    /\ UNCHANGED <<host, ctl, keys, report>>

FarReports(d) ==
    /\ Open(link[d].ch["INTERRUPT"]) /\ link[d].sent < MaxReport
    /\ link' = [link EXCEPT ![d].sent = @ + 1]
    /\ Deliver(<<Inbound(d, link[d].ch["INTERRUPT"].cid, link[d].sent + 1)>>)
    /\ UNCHANGED <<host, ctl, keys, lost, report>>

Device(d) ==
    \/ Found(d) \/ Named(d) \/ Page(d) \/ PageGivenUp(d) \/ Drop(d) \/ FarReports(d)
    \/ \E psm \in Psm : FarOpens(d, psm) \/ FarConfigures(d, psm) \/ FarCloses(d, psm)

Next ==
    \/ ReadyToSend \/ Handle \/ Get \/ Take \/ InquiryOver
    \/ \E d \in Dev : Device(d)

Spec == Init /\ [][Next]_vars

CanGet ==
    \E d \in ToSet(host.list) :
        LET i == host.idev[d] IN
        \/ i.interrupt # 0 /\ (i.interrupt \in DOMAIN host.sock => host.sock[i.interrupt].q # << >>)
        \/ /\ i.sdp # 0 /\ i.parse # << >>
           /\ i.parse[1].sock \in DOMAIN host.sock /\ host.sock[i.parse[1].sock].q # << >>

(* The keyboard task loops over hci_update and hid_get, the controller     *)
(* takes what it is sent, and a device in reach goes on with what it has   *)
(* begun and types.  Nothing has to be found, to connect or to fail.  The  *)
(* conjuncts with <<A>>_vars are weak fairness with the condition under    *)
(* which A is enabled written out.                                         *)
Fairness ==
    /\ WF_vars(ReadyToSend) /\ WF_vars(InquiryOver)
    /\ []<>(rx = << >>) \/ []<><<Handle>>_vars
    /\ []<>~CanGet \/ []<><<Get>>_vars
    /\ []<>(host.tx = << >>) \/ []<><<Take>>_vars
    /\ \A d \in Dev :
        /\ WF_vars(Named(d)) /\ WF_vars(FarReports(d))
        /\ \A psm \in Psm : WF_vars(FarOpens(d, psm)) /\ WF_vars(FarConfigures(d, psm))

FairSpec == Spec /\ Fairness

(***************************************************************************)
(* Properties.  The host takes each step of a connection for granted once  *)
(* the one before has been answered; nothing in the code stops it from     *)
(* opening a service a second time on the same link (a name that was asked *)
(* for on an earlier link arrives late, or the inquiry ends after a device *)
(* has connected by itself).  What follows is said of links on which that  *)
(* has not happened.                                                       *)
(***************************************************************************)
Pending(d, e) == \E i \in 1..Len(rx) : rx[i].evt = e /\ rx[i].dev = d

(* What has been collected of an SDP record on a channel that still exists *)
(* is its beginning, without gaps or repetitions, read over a single link  *)
(* (SDPParse::add).                                                        *)
RecordWhole ==
    \A d \in Dev :
        /\ host.idev[d].parse # << >> /\ ~host.bt[d].twice
        /\ host.idev[d].parse[1].sock \in DOMAIN host.sock
        => LET b == host.idev[d].parse[1].buf IN
           \A i \in 1..Len(b) : b[i] = [link |-> b[1].link, n |-> i]

(* Once the end of a link has been handled, no report of that link is left *)
(* for hid_get to return as a key of the next one (disconnect_all).        *)
NoStaleReport ==
    \A c \in DOMAIN host.sock :
        LET s == host.sock[c] IN
        s.psm = "INTERRUPT" /\ ~Pending(s.dev, "DISCONNECTION_COMP") =>
            \A i \in 1..Len(s.q) : s.q[i].link = link[s.dev].no

(* hid_get reads the channel that the device reports on, whichever side    *)
(* opened it.                                                              *)
ReaderHasChannel ==
    \A d \in Dev :
        LET ch == link[d].ch["INTERRUPT"] IN
        Open(ch) /\ ~host.bt[d].twice => host.idev[d].interrupt = ch.cid

(* Whatever happened before, on a link made after the last failure a key   *)
(* reaches hid_get, unless a service was opened twice or the two sides do  *)
(* not agree on who opens the channels.                                    *)
KeysComeThrough ==
    \A d \in Dev : \A n \in 1..(MaxPage + 1) :
        (/\ lost = MaxDrop /\ Pending(d, "CONNECTION_COMP")
         /\ link[d].st = "up" /\ link[d].no = n)
            ~> \/ report # << >> /\ report[1].link = n
               \/ host.bt[d].twice \/ host.idev[d].reconnect # link[d].byDevice
=============================================================================
