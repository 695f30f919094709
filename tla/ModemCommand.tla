---------------------------- MODULE ModemCommand ----------------------------
(***************************************************************************)
(* union/topology_radio.py: a node of a wiring file run as a plain modem   *)
(* link.  The command is a record: the modem's role, where its             *)
(* acknowledgement travels, the address it is dialled at, a carrier and an *)
(* RF path per direction (0 and "" for one that is not emitted), and the   *)
(* modem options stated.                                                   *)
(***************************************************************************)
EXTENDS Wiring

NoCommand == [role |-> "none"]

SendsData(t, n) == OutLinks(t, n) # <<>>

LinkOf(t, n) == IF SendsData(t, n) THEN OutLinks(t, n)[1] ELSE InLinks(t, n)[1]

Acknowledges(t) == t.ack # "none"

RfAck(t, n) == Acknowledges(t) /\ LinkOf(t, n).down = "wireless"

DataSide(t, n) ==
    IF SendsData(t, n) THEN t.nodes[n].radio.tx ELSE t.nodes[n].radio.rx

AckSide(t, n) ==
    IF SendsData(t, n) THEN t.nodes[n].radio.rx ELSE t.nodes[n].radio.tx

(* A side is emitted unless it is the acknowledgement's and that does not   *)
(* go over the air; an emitted one must name exactly one carrier.           *)
Emitted(t, n) ==
    {DataSide(t, n)} \cup (IF RfAck(t, n) THEN {AckSide(t, n)} \ {NoSide} ELSE {})

Emits(t, n) ==
    /\ HasRadio(t.nodes[n])
    /\ LinksOf(t, n) # <<>>
    /\ DataSide(t, n) # NoSide
    /\ \A side \in Emitted(t, n) : side.freq.kind = "one"

CarrierOf(side, t, n) ==
    IF side # NoSide /\ side \in Emitted(t, n) THEN side.freq.of[1] ELSE 0

(* A receive block's own threshold replaces the file's.                     *)
GateOf(t, n) ==
    LET rx == t.nodes[n].radio.rx
        file == IF "det_mult" \in DOMAIN t.defaults THEN t.defaults["det_mult"] ELSE 0
    IN  IF rx # NoSide /\ rx.gate # 0 THEN rx.gate ELSE file

Role(t, n) ==
    CASE Acknowledges(t) /\ SendsData(t, n) -> "source_arq"
      [] Acknowledges(t) /\ ~SendsData(t, n) -> "sink_arq"
      [] OTHER -> IF SendsData(t, n) THEN "tx" ELSE "rx"

AckTransport(t, n) ==
    IF ~Acknowledges(t) THEN "" ELSE IF RfAck(t, n) THEN "rf" ELSE "tcp"

Command(t, n) ==
    LET sink == t.nodes[LinkOf(t, n).b]
        socket == AckTransport(t, n) = "tcp"
        radio == t.nodes[n].radio
    IN  IF ~Emits(t, n) THEN NoCommand
        ELSE [role |-> Role(t, n), ack_transport |-> AckTransport(t, n),
              tx_freq |-> CarrierOf(radio.tx, t, n),
              rx_freq |-> CarrierOf(radio.rx, t, n),
              ack_port |-> IF socket THEN DialPort(sink, "ack", 5599) ELSE 0,
              ack_host |-> IF ~socket \/ ~SendsData(t, n) THEN ""
                           ELSE IF DialHost(sink) = "" THEN "127.0.0.1"
                           ELSE DialHost(sink),
              det_mult |-> GateOf(t, n)]

(* What is typed after the node's name replaces what the file produced.     *)
Typing(cmd, extra) == [d \in DOMAIN cmd |-> IF d \in DOMAIN extra THEN extra[d]
                                             ELSE cmd[d]]
=============================================================================
