------------------------------- MODULE Wiring -------------------------------
(***************************************************************************)
(* union/topology.py: the wiring file of an experiment, read into a        *)
(* topology or refused.  The i-th node of the file is node i; its index in *)
(* the code is i - 1.                                                      *)
(*                                                                         *)
(* As written, a file is [nodes, links, defaults].  A node has id, role,   *)
(* host, ports (a function on some port names), adv (the published host and*)
(* ports), lora (has a LoRa section) and radio, [args, tx, rx], with       *)
(* NoRadio for none.  A side is [path, freq, gate] (connector with its RF  *)
(* channel, carrier, detector threshold) or NoSide.  links is "ring",      *)
(* "full" or "star" as a shape, or a list of [from, to, up, down].  ""     *)
(* stands for a key that is not written.                                   *)
(***************************************************************************)
EXTENDS Integers, Sequences, FiniteSets, SequencesExt

NoSide  == [path |-> "none"]
NoRadio == [args |-> "", tx |-> NoSide, rx |-> NoSide]

(* A carrier: [kind, of] where of holds its numbers.  A quoted number is    *)
(* read as the number; a blank is kept for the run to refuse by name.       *)
NoFreq    == [kind |-> "none", of |-> <<>>]
BlankFreq == [kind |-> "blank", of |-> <<>>]
OneFreq(mhz) == [kind |-> "one", of |-> <<mhz>>]

FreqOk(v) ==
    /\ v.kind \in {"none", "blank", "one", "quoted", "list"}
    /\ v.kind \in {"one", "quoted"} => Len(v.of) = 1
    /\ v.kind = "list" => v.of # <<>>
    /\ \A i \in DOMAIN v.of : v.of[i] > 0

FreqField(v) == IF v.kind = "quoted" THEN OneFreq(v.of[1]) ELSE v

(* Blanks a person still has to fill in.                                    *)
Blank == "FILL"

CanTx(nd) == nd.radio.tx # NoSide
CanRx(nd) == nd.radio.rx # NoSide
HasRadio(nd) == nd.radio # NoRadio

NodeOk(nd) ==
    /\ nd.id # ""
    /\ HasRadio(nd) => nd.radio.args # "" /\ (CanTx(nd) \/ CanRx(nd))
    /\ CanTx(nd) => FreqOk(nd.radio.tx.freq)
    /\ CanRx(nd) => FreqOk(nd.radio.rx.freq)

ReadSide(s) == IF s = NoSide THEN s ELSE [s EXCEPT !.freq = FreqField(@)]

(* A blank host is not an address: it is read as none.                      *)
ReadNode(nd) ==
    [nd EXCEPT !.role = IF @ = "" THEN "peer" ELSE @,
               !.host = IF @ = Blank THEN "" ELSE @,
               !.radio.tx = ReadSide(@),
               !.radio.rx = ReadSide(@)]

(* What this node binds, against what everyone else dials.                  *)
PortOr(ports, which, default) ==
    IF which \in DOMAIN ports THEN ports[which] ELSE default

Port(nd, which, default) == PortOr(nd.ports, which, default)

DialHost(nd) == IF nd.adv.host # "" THEN nd.adv.host ELSE nd.host

DialPort_Bound(nd, which, default) == Port(nd, which, default)
DialPort(nd, which, default) ==
    PortOr(nd.adv.ports, which, Port(nd, which, default))

LocalHosts == {"", "127.0.0.1"}

Medium(m) ==
    CASE m = "" -> "tcp"
      [] m \in {"usrp", "radio", "rf", "air", "ota"} -> "wireless"
      [] m \in {"ip", "ethernet", "tcp/ip"} -> "tcp"
      [] OTHER -> m

Default(raw, key, otherwise) ==
    IF key \in DOMAIN raw.defaults THEN raw.defaults[key] ELSE otherwise

(* The shorthands, and the list as written.  Pairs keep their order: the    *)
(* end named first speaks first, and the list is the schedule.              *)
Shorthand(shape, n) ==
    CASE shape = "ring" -> IF n = 2 THEN <<<<1, 2>>>>
                           ELSE [i \in 1..n |-> <<i, (i % n) + 1>>]
      [] shape = "star" -> [i \in 1..(n - 1) |-> <<1, i + 1>>]
      [] OTHER -> SetToSortSeq({p \in (1..n) \X (1..n) : p[1] < p[2]},
                     LAMBDA p, q : p[1] < q[1] \/ (p[1] = q[1] /\ p[2] < q[2]))

ReadLinks(raw) ==
    IF raw.links.shape = "list"
    THEN [i \in DOMAIN raw.links.of |->
            LET ln == raw.links.of[i]
            IN  [a |-> ln.from, b |-> ln.to, up |-> Medium(ln.up),
                 down |-> Medium(ln.down)]]
    ELSE LET pairs == Shorthand(raw.links.shape, Len(raw.nodes))
             med   == Medium(Default(raw, "medium", ""))
         IN  [i \in DOMAIN pairs |->
                [a |-> pairs[i][1], b |-> pairs[i][2], up |-> med, down |-> med]]

LinksOk(raw, links) ==
    /\ links # <<>>
    /\ \A i \in DOMAIN links :
        /\ {links[i].a, links[i].b} \subseteq DOMAIN raw.nodes
        /\ links[i].a # links[i].b
        /\ {links[i].up, links[i].down} \subseteq {"tcp", "wireless", "lora"}
        /\ \A j \in 1..(i - 1) :
                {links[i].a, links[i].b} # {links[j].a, links[j].b}

(* How the acknowledgement travels: "rf", "tcp", "none", or "" when the     *)
(* file leaves it to the links.  The switch wins over every link's down     *)
(* medium, and without rf the reverse RF blocks of each link are dropped.   *)
AckMode(raw) ==
    LET aw == Default(raw, "ack_wireless", "")
    IN  Default(raw, "ack", IF aw = "" THEN "" ELSE IF aw = "true" THEN "rf"
                            ELSE "tcp")

AckOk(raw) ==
    /\ Default(raw, "ack", "rf") \in {"rf", "tcp", "none"}
    /\ Default(raw, "ack_wireless", "true") \in {"true", "false"}

SwitchDown(links, ack) ==
    IF ack = "" THEN links
    ELSE [i \in DOMAIN links |->
            [links[i] EXCEPT !.down = IF ack = "rf" THEN "wireless" ELSE "tcp"]]

DropReverse(nodes, links, ack) ==
    LET first(n)  == \E i \in DOMAIN links : links[i].a = n
        second(n) == \E i \in DOMAIN links : links[i].b = n
    IN  IF ack \in {"", "rf"} THEN nodes
        ELSE [n \in DOMAIN nodes |->
                [nodes[n] EXCEPT !.radio.rx = IF first(n) THEN NoSide ELSE @,
                                 !.radio.tx = IF second(n) THEN NoSide ELSE @]]

(* Every direction over the air needs a transmitter at one end and a        *)
(* receiver at the other; every LoRa direction a LoRa section.              *)
DirectionOk(src, dst, med) ==
    CASE med = "wireless" -> CanTx(src) /\ CanRx(dst)
      [] med = "lora" -> src.lora \/ dst.lora
      [] OTHER -> DialHost(dst) # "" \/ src.host \in LocalHosts

AirOk(t) ==
    \A i \in DOMAIN t.links :
        LET ln == t.links[i]
        IN  /\ DirectionOk(t.nodes[ln.a], t.nodes[ln.b], ln.up)
            /\ DirectionOk(t.nodes[ln.b], t.nodes[ln.a], ln.down)

(* No two listeners the file names share a host and a port, and no two      *)
(* published ones share an address.                                         *)
Listeners(t) ==
    {<<n, which>> \in (DOMAIN t.nodes) \X {"net", "peer", "ack"} :
        which \in DOMAIN t.nodes[n].ports}

Published(t) ==
    {<<n, which>> \in (DOMAIN t.nodes) \X {"net", "peer", "ack", "down"} :
        which \in DOMAIN t.nodes[n].adv.ports}

HostOr(nd, otherwise) == IF nd.host = "" THEN otherwise ELSE nd.host

PortsOk(t) ==
    /\ \A x, y \in Listeners(t) :
        /\ HostOr(t.nodes[x[1]], "127.0.0.1") = HostOr(t.nodes[y[1]], "127.0.0.1")
        /\ t.nodes[x[1]].ports[x[2]] = t.nodes[y[1]].ports[y[2]]
        => x = y
    /\ \A x, y \in Published(t) :
        /\ DialHost(t.nodes[x[1]]) = DialHost(t.nodes[y[1]])
        /\ t.nodes[x[1]].adv.ports[x[2]] = t.nodes[y[1]].adv.ports[y[2]]
        => x = y
    /\ \A x \in Published(t) : DialHost(t.nodes[x[1]]) # ""

(* Topology(raw): the topology a file describes, or Refused.                *)
Refused == [ok |-> FALSE]

Topology(raw) ==
    LET links == ReadLinks(raw)
        ack   == AckMode(raw)
        t     == [ok |-> TRUE, ack |-> ack, defaults |-> raw.defaults,
                  links |-> SwitchDown(links, ack),
                  nodes |-> DropReverse([n \in DOMAIN raw.nodes |->
                                           ReadNode(raw.nodes[n])], links, ack)]
        ids   == {raw.nodes[n].id : n \in DOMAIN raw.nodes}
    IN  IF /\ raw.nodes # <<>> /\ Cardinality(ids) = Len(raw.nodes)
           /\ \A n \in DOMAIN raw.nodes : NodeOk(raw.nodes[n])
           /\ FreqOk(Default(raw, "freq_mhz", NoFreq))
           /\ LinksOk(raw, links) /\ AckOk(raw)
           /\ AirOk(t) /\ PortsOk(t)
        THEN t ELSE Refused

(* The graph, in the vocabulary of the runners.                             *)
LinksOf(t, n) == SelectSeq(t.links, LAMBDA ln : n \in {ln.a, ln.b})
OutLinks(t, n) == SelectSeq(t.links, LAMBDA ln : ln.a = n)
InLinks(t, n) == SelectSeq(t.links, LAMBDA ln : ln.b = n)

MediaOf(t, n) ==
    {ln.up : ln \in ToSet(LinksOf(t, n))} \cup {ln.down : ln \in ToSet(LinksOf(t, n))}

(* Blanks of one node's own radio: the far end's are its owner's to fill.   *)
Placeholders(nd) ==
    \/ nd.radio.args = Blank
    \/ CanTx(nd) /\ (nd.radio.tx.freq = BlankFreq \/ nd.radio.tx.path = Blank)
    \/ CanRx(nd) /\ (nd.radio.rx.freq = BlankFreq \/ nd.radio.rx.path = Blank)
=============================================================================
