---------------------------- MODULE NodeSettings ----------------------------
(***************************************************************************)
(* How a node of an experiment comes by its settings (union/run_algo.py,   *)
(* union/topology_radio.py): every container is launched by hand, with its *)
(* own flags, at its own time, and resolves them against the wiring file   *)
(* and the surveys that are in the shared workspace at that moment.  No two*)
(* of them talk to each other before they run, so whether they meet - on a *)
(* port, on a carrier - is decided here.                                   *)
(*                                                                         *)
(*   raw        the wiring file on disk                                    *)
(*   surveys    the survey records published into the workspace            *)
(*   stage[n]   "off", "typed", "profiled", "wired", "running", "refused"  *)
(*   conf[n]    the settings of node n's process                           *)
(*   read[n]    the file and the surveys node n resolved against           *)
(***************************************************************************)
EXTENDS Wiring, TLC

CONSTANTS
    Files,      \* the wiring files an experiment may start from
    Filled,     \* a draft |-> the same file with its blanks filled in
    Pool,       \* survey records prepare_phy may publish, at any time
    Prior,      \* the sets of records there may be at the start
    Flags,      \* id of a node |-> what may be typed at its launch
    HostKeys,   \* id of a node |-> the keys its host looks surveys up by
    Sessions    \* published port blocks: [pod, parts, site, map]

S == INSTANCE Surveys
Modem == INSTANCE ModemCommand

VARIABLES raw, surveys, stage, conf, read
vars == <<raw, surveys, stage, conf, read>>

Nodes == DOMAIN raw.nodes

(* The parser's defaults; 0, "" and <<>> stand for None.                    *)
Default0 ==
    [role |-> "", link |-> "auto", channel |-> "ideal", backend |-> "pyphy",
     scheme |-> "QPSK", freq |-> 915, rx_freq |-> 0, tx_freq |-> 0,
     net_host |-> "127.0.0.1", net_port |-> 5700,
     down_host |-> "", down_port |-> 0,
     ack_host |-> "127.0.0.1", ack_port |-> 5599, ack_transport |-> "tcp",
     peers |-> <<>>, peer_link |-> "", peer_port |-> 5800, peer_ports |-> <<>>,
     tx_args |-> "", rx_args |-> "", tx_path |-> "A:A", rx_path |-> "A:0",
     up_medium |-> "", down_medium |-> "", clients |-> 0, agents |-> 4]

(* Settings of a process: the values, which were typed, which a survey      *)
(* filled in, the modem options in the order they were put on --usrp-set.   *)
Fresh(f) ==
    [val |-> f.val @@ Default0, typed |-> DOMAIN f.val, surveyed |-> {},
     usrp_set |-> f.usrp_set, hub_index |-> 0, no_profile |-> f.no_profile,
     mode |-> f.mode]

(* A value that is not the parser's default counts as typed, unless it came *)
(* from a survey.                                                           *)
Typed_NoExemption(c, d) == d \in c.typed \/ c.val[d] # Default0[d]
Typed(c, d) ==
    d \in c.typed \/ (d \notin c.surveyed /\ c.val[d] # Default0[d])

(* _set(): <<>> is None, <<v>> a value from the file.                       *)
Set(c, d, v) ==
    IF v = <<>> \/ Typed(c, d) THEN c
    ELSE [c EXCEPT !.val[d] = v[1], !.surveyed = @ \ {d}]

SetAll(c, pairs) == FoldLeft(LAMBDA acc, p : Set(acc, p[1], p[2]), c, pairs)

None == <<>>
Some(v) == <<v>>
OrElse(v, default) == Some(IF v = "" THEN default ELSE v)

TypedGate(c) == \E i \in DOMAIN c.usrp_set : c.usrp_set[i].by = "typed"

SurveyFreq(c, s) ==
    IF Typed(c, "freq") THEN c
    ELSE [c EXCEPT !.val.freq = S!Recommended(s).carrier,
                   !.surveyed = @ \cup {"freq"}]

(* apply_phy_profile(): the surveyed carrier where nobody named one, and the*)
(* detector threshold where the modem process is already selected.  The     *)
(* option is looked for among the typed ones by its exact spelling.         *)
Profile(c, id) ==
    LET side == IF c.val.role = "tx" THEN "tx" ELSE "rx"
        pathOf == IF side = "tx" THEN "tx_path" ELSE "rx_path"
        q == [band |-> "",
              path |-> IF Typed(c, pathOf) THEN c.val[pathOf] ELSE "",
              args |-> IF side = "tx" THEN c.val.tx_args ELSE c.val.rx_args,
              near |-> IF Typed(c, "freq") THEN c.val.freq ELSE 0]
        s == S!Find(surveys, HostKeys[id], q)
        c1 == SurveyFreq(c, s)
        named == \E i \in DOMAIN c.usrp_set : c.usrp_set[i].key = "det_mult"
    IN  IF c.no_profile \/ ~S!Found(s) THEN c
        ELSE IF c.val.backend = "radio" /\ ~named
             THEN [c1 EXCEPT !.usrp_set =
                      Append(@, [key |-> "det_mult", of |-> s.gate, by |-> "survey"])]
             ELSE c1

(* pick_freq(): a number passes through, a list asks the survey of the named*)
(* radio, and the run stops when the survey rules out all of it.            *)
Pick(c, id, freq, args, path) ==
    CASE freq.kind = "list" ->
            Some(IF c.no_profile THEN freq.of[1]
                 ELSE S!ChooseCandidate(surveys, HostKeys[id], freq.of,
                        [S!Anything EXCEPT !.args = args, !.path = path]))
      [] freq.kind = "one" -> Some(freq.of[1])
      [] OTHER -> None

Stops(picked) == picked = Some(S!RuledOut)

FreqOf(side) == IF side = NoSide THEN NoFreq ELSE side.freq
PathOf(side) == IF side = NoSide THEN "" ELSE side.path

(* _tx_carrier_path(): a transmit carrier belongs to the receiver, so a list*)
(* on a tx side is resolved against the peer's receive survey.  For a link  *)
(* that ends here that is the peer only when the ACK returns over the air.  *)
Hearer_Own(t, n) == n
Hearer(t, n) ==
    LET ls == LinksOf(t, n)
        far(ln) == IF ln.a = n THEN ln.b ELSE ln.a
        i == SelectInSeq(ls, LAMBDA ln : /\ ln.a = n \/ ln.down = "wireless"
                                         /\ CanRx(t.nodes[far(ln)]))
    IN  IF i = 0 THEN n ELSE far(ls[i])

RxPick(c, t, n) ==
    LET r == t.nodes[n].radio
    IN  Pick(c, t.nodes[n].id, FreqOf(r.rx), r.args, PathOf(r.rx))

TxPick(c, t, n) ==
    LET h == Hearer(t, n)
        r == t.nodes[h].radio
    IN  Pick(c, t.nodes[n].id, FreqOf(t.nodes[n].radio.tx), r.args,
             PathOf(IF h = n THEN r.tx ELSE r.rx))

(* Experiment-wide knobs.  A carrier list waits until the node is known.    *)
DefaultsOf(t) ==
    LET knob(k) == IF k \in DOMAIN t.defaults THEN Some(t.defaults[k]) ELSE None
        freq == Default(t, "freq_mhz", NoFreq)
    IN  <<<<"channel", knob("channel")>>, <<"scheme", knob("scheme")>>,
          <<"freq", IF FreqField(freq).kind = "one" THEN Some(freq.of[1]) ELSE None>>,
          <<"peer_port", knob("peer_port")>>,
          <<"ack_transport", knob("ack_transport")>>,
          <<"agents", Some(Len(t.nodes))>>>>

(* PeerLink gives node k the port base + k: the ports a file names must     *)
(* imply one base.                                                          *)
Bases(t) ==
    {t.nodes[m].ports["peer"] - (m - 1) :
        m \in {k \in DOMAIN t.nodes : "peer" \in DOMAIN t.nodes[k].ports}}

BaseOf(t) ==
    IF Bases(t) = {} THEN None ELSE Some(CHOOSE b \in Bases(t) : TRUE)

PeerTransport(t, n) ==
    LET media == MediaOf(t, n)
    IN  CASE media = {"tcp"} -> "tcp"
          [] media = {"lora"} -> "lora"
          [] "wireless" \in media /\ "lora" \notin media -> "wireless"
          [] OTHER -> "split"

PeerRole(role) == role \in {"peer", "gossip"}

DialOf(t, base) ==
    [m \in DOMAIN t.nodes |-> DialPort(t.nodes[m], "peer", base + m - 1)]

AsPeer(c, t, n) ==
    LET base == c.val.peer_port
        dial == DialOf(t, base)
    IN  SetAll(c, <<<<"peers", Some([m \in DOMAIN t.nodes |->
                                 OrElse(DialHost(t.nodes[m]), "127.0.0.1")[1]])>>,
                    <<"peer_ports", IF \E m \in DOMAIN dial : dial[m] # base + m - 1
                                    THEN Some(dial) ELSE None>>,
                    <<"peer_link", IF PeerRole(c.val.role)
                                   THEN Some(PeerTransport(t, n)) ELSE None>>>>)

(* The point-to-point roles: what arrives and what leaves, one medium each. *)
Arrives(t, n) == {ln.up : ln \in ToSet(InLinks(t, n))}
Leaves(t, n) == {ln.up : ln \in ToSet(OutLinks(t, n))}
The(media) == CHOOSE m \in media : TRUE
Family(m) == IF m = "wireless" THEN "usrp" ELSE m

HopsOk(t, n) ==
    /\ Cardinality(Arrives(t, n)) <= 1 /\ Cardinality(Leaves(t, n)) <= 1
    /\ \/ Arrives(t, n) \cup Leaves(t, n) = {"lora"}
       \/ \A ln \in ToSet(LinksOf(t, n)) : ln.down \in {"tcp", "wireless"}

(* This node's place among the clients of the node it dials.                *)
HubIndex(t, n) ==
    IF OutLinks(t, n) = <<>> THEN 0
    ELSE SelectInSeq(InLinks(t, OutLinks(t, n)[1].b), LAMBDA ln : ln.a = n) - 1

AsRelay(c, t, n) ==
    LET nd   == t.nodes[n]
        nxt  == t.nodes[OutLinks(t, n)[1].b]
        up   == The(Arrives(t, n))
        down == The(Leaves(t, n))
        dial == OrElse(DialHost(nxt), "127.0.0.1")
    IN  SetAll([c EXCEPT !.val.up_medium = up, !.val.down_medium = down],
          <<<<"link", Some(CASE "lora" \in {up, down} -> "lora"
                             [] up = "wireless" /\ down = "wireless" -> "usrp"
                             [] OTHER -> "chain")>>,
            <<"net_host", OrElse(nd.host, "0.0.0.0")>>,
            <<"net_port", Some(Port(nd, "net", 5700))>>,
            <<"down_host", dial>>,
            <<"down_port", Some(Port(nd, "down",
                              DialPort(nxt, "net", Port(nd, "net", 5700) + 1)))>>,
            <<"ack_host", IF down = "wireless" THEN dial ELSE None>>,
            <<"ack_port", IF down = "wireless"
                          THEN Some(DialPort(nxt, "ack", 5599)) ELSE None>>>>)

AsClient(c, t, n) ==
    LET hub  == t.nodes[OutLinks(t, n)[1].b]
        dial == OrElse(DialHost(hub), "127.0.0.1")
        out  == The(Leaves(t, n))
    IN  SetAll(c, <<<<"link", Some(Family(out))>>,
                    <<"net_host", dial>>,
                    <<"net_port", Some(DialPort(hub, "net", 5700))>>,
                    <<"ack_host", dial>>,
                    <<"ack_port", IF out = "wireless"
                                  THEN Some(DialPort(hub, "ack", 5599)) ELSE None>>>>)

AsServer(c, t, n) ==
    SetAll(c, <<<<"link", Some(Family(The(Arrives(t, n))))>>,
                <<"net_host", OrElse(t.nodes[n].host, "127.0.0.1")>>,
                <<"net_port", Some(Port(t.nodes[n], "net", 5700))>>,
                <<"clients", Some(Len(InLinks(t, n)))>>>>)

AsEnd(c, t, n) ==
    LET c1 == SetAll([c EXCEPT !.hub_index = HubIndex(t, n)],
                <<<<"ack_transport",
                    IF \E ln \in ToSet(LinksOf(t, n)) : ln.down = "wireless"
                    THEN Some("rf") ELSE None>>>>)
    IN  CASE InLinks(t, n) # <<>> /\ OutLinks(t, n) # <<>> -> AsRelay(c1, t, n)
          [] OutLinks(t, n) # <<>> /\ InLinks(t, n) = <<>> -> AsClient(c1, t, n)
          [] OTHER -> AsServer(c1, t, n)

(* The radio this node owns.  A carrier that counts as typed reaches both   *)
(* directions and suppresses the file's number for each of them.            *)
WithRadio(c, t, n) ==
    LET r    == t.nodes[n].radio
        args(side) == IF side = NoSide THEN None ELSE Some(r.args)
        path(side) == IF side = NoSide \/ PathOf(side) = "" THEN None
                      ELSE Some(PathOf(side))
        tx   == TxPick(c, t, n)
        rx   == RxPick(c, t, n)
        each == IF Typed(c, "freq") THEN <<>>
                ELSE <<<<"rx_freq", rx>>, <<"tx_freq", tx>>>>
        air  == IF PeerRole(c.val.role) THEN PeerTransport(t, n) = "wireless"
                ELSE "wireless" \in Arrives(t, n) \cup Leaves(t, n)
        c1   == SetAll(c, <<<<"tx_args", args(r.tx)>>, <<"tx_path", path(r.tx)>>,
                            <<"rx_args", args(r.rx)>>, <<"rx_path", path(r.rx)>>>>
                          \o each \o <<<<"freq", IF tx # None THEN tx ELSE rx>>>>)
    IN  IF ~HasRadio(t.nodes[n]) THEN c
        ELSE IF air THEN SetAll(c1, <<<<"channel", Some("usrp")>>,
                                      <<"backend", Some("radio")>>>>)
        ELSE c1

(* The experiment-wide list, once the node's radio is known.                *)
ListPick(c, t, n) ==
    LET r    == t.nodes[n].radio
        side == IF CanRx(t.nodes[n]) THEN r.rx ELSE r.tx
        freq == Default(t, "freq_mhz", NoFreq)
    IN  IF freq.kind = "list"
        THEN Pick(c, t.nodes[n].id, freq, r.args, PathOf(side)) ELSE None

(* The file's modem options go after the survey's, where the last one wins, *)
(* unless the experimenter typed one under either spelling.                 *)
WithGate(c, t) ==
    IF /\ "det_mult" \in DOMAIN t.defaults /\ c.val.backend = "radio"
       /\ ~TypedGate(c)
    THEN [c EXCEPT !.usrp_set = Append(@, [key |-> "det_mult",
                                           of |-> t.defaults["det_mult"],
                                           by |-> "file"])]
    ELSE c

(* apply_topology() for one node, and the conditions under which it exits.  *)
BeforeRadio(c, t, n) ==
    LET nd == t.nodes[n]
        ack == IF "ack" \in DOMAIN nd.ports THEN Some(nd.ports["ack"]) ELSE None
        c1 == SetAll(c, DefaultsOf(t) \o <<<<"peer_port", BaseOf(t)>>,
                                           <<"role", Some(nd.role)>>,
                                           <<"ack_port", ack>>>>)
        c2 == AsPeer(c1, t, n)
    IN  IF PeerRole(c1.val.role) THEN c2 ELSE AsEnd(c2, t, n)

WiringOk(c, t, n) ==
    /\ ~Placeholders(t.nodes[n])
    /\ Cardinality(Bases(t)) <= 1
    /\ LET role == BeforeRadio(c, t, n).val.role
       IN  IF PeerRole(role) THEN PeerTransport(t, n) # "split"
           ELSE HopsOk(t, n) /\ LinksOf(t, n) # <<>>

PicksOk(c, t, n) ==
    ~Stops(TxPick(c, t, n)) /\ ~Stops(RxPick(c, t, n)) /\ ~Stops(ListPick(c, t, n))

ApplyTopology(c, t, n) ==
    WithGate(Set(WithRadio(BeforeRadio(c, t, n), t, n), "freq", ListPick(c, t, n)), t)

-----------------------------------------------------------------------------
(* What the process does with its settings once they are resolved.          *)

RxMHz(c) == IF c.val.rx_freq = 0 THEN c.val.freq ELSE c.val.rx_freq
TxMHz(c) == IF c.val.tx_freq = 0 THEN c.val.freq ELSE c.val.tx_freq

(* The modem's dictionary keeps the last occurrence of an option, whichever *)
(* way it is spelled; "" is the modem's own default.                        *)
DetMult(c) ==
    IF c.usrp_set = <<>> THEN "" ELSE c.usrp_set[Len(c.usrp_set)].by

(* Carriers are MHz here and Hz in the other launcher.                      *)
InMHz(c) == \A mhz \in {c.val.freq, c.val.rx_freq, c.val.tx_freq} : mhz < 1000000

(* resolve_peer_hosts(): "@name" is looked up among the published sessions, *)
(* exactly or as part of a name, and brings the port that is published for  *)
(* the container's.                                                         *)
Named(host) ==
    LET exact == {s \in Sessions : s.pod = host}
    IN  IF exact # {} THEN exact ELSE {s \in Sessions : host \in s.parts}

IsName(host) == \E s \in Sessions : host \in s.parts \cup {s.pod}

Resolves(host, port) ==
    /\ Cardinality(Named(host)) = 1
    /\ \A s \in Named(host) : s.site # "" /\ port \in DOMAIN s.map

Dialled(c) ==
    IF ~IsName(c.val.net_host) THEN c
    ELSE LET s == CHOOSE r \in Named(c.val.net_host) : TRUE
         IN  [c EXCEPT !.val.net_host = s.site, !.val.net_port = s.map[c.val.net_port]]

(* build_link(): which transport a resolved role gets, "" when it exits.    *)
LinkKind(c) ==
    CASE PeerRole(c.val.role) -> c.val.peer_link
      [] c.val.link = "tcp" /\ ~PeerRole(c.val.role) ->
            IF c.val.role = "relay" THEN "" ELSE "tcp"
      [] c.val.link = "chain" /\ ~PeerRole(c.val.role) -> "chain"
      [] c.val.link = "lora" /\ ~PeerRole(c.val.role) -> "lora"
      [] OTHER -> IF c.val.channel = "lora" THEN "lora" ELSE "usrp"

-----------------------------------------------------------------------------
Init ==
    /\ raw \in Files
    /\ surveys \in Prior
    /\ stage = [n \in Nodes |-> "off"]
    /\ conf = [n \in Nodes |-> Fresh([val |-> <<>>, usrp_set |-> <<>>,
                                      no_profile |-> FALSE, mode |-> "algo"])]
    /\ read = [n \in Nodes |-> <<raw, surveys>>]

(* An experimenter starts node n's container.                               *)
Launch(n) ==
    /\ stage[n] = "off"
    /\ \E f \in Flags[raw.nodes[n].id] : conf' = [conf EXCEPT ![n] = Fresh(f)]
    /\ stage' = [stage EXCEPT ![n] = "typed"]
    /\ UNCHANGED <<raw, surveys, read>>

ApplyProfile(n) ==
    /\ stage[n] = "typed" /\ conf[n].mode = "algo"
    /\ conf' = [conf EXCEPT ![n] = Profile(@, raw.nodes[n].id)]
    /\ stage' = [stage EXCEPT ![n] = "profiled"]
    /\ UNCHANGED <<raw, surveys, read>>

(* The file is read, this node's part of it applied, and carriers resolved. *)
Wire(n) ==
    /\ stage[n] = "profiled"
    /\ LET t == Topology(raw)
           ok == t # Refused /\ WiringOk(conf[n], t, n)
                 /\ PicksOk(BeforeRadio(conf[n], t, n), t, n)
       IN  /\ conf' = IF ok THEN [conf EXCEPT ![n] = ApplyTopology(@, t, n)] ELSE conf
           /\ stage' = [stage EXCEPT ![n] = IF ok THEN "wired" ELSE "refused"]
    /\ read' = [read EXCEPT ![n] = <<raw, surveys>>]
    /\ UNCHANGED <<raw, surveys>>

Settle(n) ==
    /\ stage[n] = "wired"
    /\ LET c == conf[n]
           ok == /\ InMHz(c) /\ LinkKind(c) # ""
                 /\ IsName(c.val.net_host) => Resolves(c.val.net_host, c.val.net_port)
       IN  /\ conf' = IF ok THEN [conf EXCEPT ![n] = Dialled(c)] ELSE conf
           /\ stage' = [stage EXCEPT ![n] = IF ok THEN "running" ELSE "refused"]
    /\ UNCHANGED <<raw, surveys, read>>

(* ./run.sh radio: the file read and the modem command executed at once.    *)
ModemOf(n) ==
    Modem!Typing(Modem!Command(Topology(read[n][1]), n),
                 [d \in conf[n].typed |-> conf[n].val[d]])

RunModem(n) ==
    /\ stage[n] = "typed" /\ conf[n].mode = "modem"
    /\ LET t == Topology(raw)
           ok == t # Refused /\ Modem!Emits(t, n)
       IN  stage' = [stage EXCEPT ![n] = IF ok THEN "running" ELSE "refused"]
    /\ read' = [read EXCEPT ![n] = <<raw, surveys>>]
    /\ UNCHANGED <<raw, surveys, conf>>

(* prepare_phy publishes a measurement; somebody fills in a draft.          *)
Publish ==
    /\ \E s \in Pool \ surveys : surveys' = surveys \cup {s}
    /\ UNCHANGED <<raw, stage, conf, read>>

Fill ==
    /\ raw \in DOMAIN Filled
    /\ raw' = Filled[raw]
    /\ UNCHANGED <<surveys, stage, conf, read>>

Next ==
    \/ \E n \in Nodes : \/ Launch(n) \/ ApplyProfile(n) \/ Wire(n) \/ Settle(n)
                        \/ RunModem(n)
    \/ Publish \/ Fill

Spec == Init /\ [][Next]_vars

-----------------------------------------------------------------------------
(* Properties.                                                              *)

Running(n, mode) == stage[n] = "running" /\ conf[n].mode = mode

(* Two nodes that resolved against the same file and the same measurements. *)
SameInputs(m, n) == read[m] = read[n]

WiringOf(n) == Topology(read[n][1])

TypesCarrier(n) ==
    conf[n].typed \cap {"freq", "rx_freq", "tx_freq"} # {} \/ conf[n].no_profile

(* Does a file speak for both carriers of a link's direction: the side that *)
(* transmits and the one that receives, or all nodes at once.               *)
Pinned(t, src, dst) ==
    \/ Default(t, "freq_mhz", NoFreq) # NoFreq
    \/ /\ FreqOf(t.nodes[src].radio.tx) # NoFreq
       /\ FreqOf(t.nodes[dst].radio.rx) # NoFreq

(* Whatever order the two ends of a link are launched in, and whatever else *)
(* is measured meanwhile, each direction over the air is tuned alike at its *)
(* two ends, provided they read the same file and measurements and nobody   *)
(* typed a carrier: the invariant test_carrier_precedence.py:43 states for  *)
(* two files, here over lists, surveys and both launchers.                  *)
Meet(t, src, dst) ==
    /\ Running(src, "algo") /\ Running(dst, "algo") =>
          TxMHz(conf[src]) = RxMHz(conf[dst])
    /\ Running(src, "modem") /\ Running(dst, "modem") =>
          ModemOf(src).tx_freq = ModemOf(dst).rx_freq

CarriersMirror ==
    \A m, n \in Nodes :
        /\ {stage[m], stage[n]} = {"running"} /\ m # n
        /\ SameInputs(m, n) /\ ~TypesCarrier(m) /\ ~TypesCarrier(n)
        => LET t == WiringOf(m)
           IN  \A ln \in ToSet(LinksOf(t, m)) :
                 /\ ln.a = m /\ ln.b = n /\ ln.up = "wireless" /\ Pinned(t, m, n)
                    => Meet(t, m, n)
                 /\ ln.b = m /\ ln.a = n /\ ln.down = "wireless" /\ Pinned(t, m, n)
                    => Meet(t, m, n)

(* The port another node dials for a port that m binds.                     *)
Outside(t, m, which, bound) == PortOr(t.nodes[m].adv.ports, which, bound)

(* Whoever dials a running node dials the address it is published at and the*)
(* port it really binds: clients and relays the reply socket, transmitters  *)
(* the ACK socket, peers each other, modems the sink's ACK socket.          *)
DialsNext(n, m, t) ==
    LET c == conf[n].val
        b == conf[m].val
        relays == InLinks(t, n) # <<>>
        host == IF DialHost(t.nodes[m]) = "" THEN "127.0.0.1" ELSE DialHost(t.nodes[m])
    IN  /\ IF relays THEN c.down_port = Outside(t, m, "net", b.net_port)
                    ELSE <<c.net_host, c.net_port>> =
                            <<host, Outside(t, m, "net", b.net_port)>>
        /\ c.link = "usrp" /\ c.ack_transport = "tcp" =>
              <<c.ack_host, c.ack_port>> = <<host, Outside(t, m, "ack", b.ack_port)>>

DialsPeer(n, m, t) ==
    LET c == conf[n].val
    IN  (IF c.peer_ports # <<>> THEN c.peer_ports[m] ELSE c.peer_port + m - 1)
          = Outside(t, m, "peer", conf[m].val.peer_port + m - 1)

TypesAddress(n) ==
    conf[n].typed \cap {"net_host", "net_port", "ack_port", "peer_port"} # {}

PortsMeet ==
    \A n, m \in Nodes :
        /\ {stage[m], stage[n]} = {"running"} /\ m # n
        /\ SameInputs(m, n) /\ ~TypesAddress(n) /\ ~TypesAddress(m)
        => LET t == WiringOf(n)
           IN  \A ln \in ToSet(LinksOf(t, n)) :
                 /\ m \in {ln.a, ln.b} /\ conf[n].mode = conf[m].mode =>
                     CASE conf[n].mode = "modem" ->
                            ModemOf(n).ack_port = ModemOf(m).ack_port
                       [] PeerRole(conf[n].val.role) /\ conf[n].mode = "algo" ->
                            DialsPeer(n, m, t)
                       [] OTHER -> ln.a = n => DialsNext(n, m, t)

(* The two ends of a link, each of which resolves its settings alone, come  *)
(* out tuned alike over the air (CarriersMirror) and dial what the other    *)
(* binds (PortsMeet): run_algo.py apply_topology, topology_radio.py command.*)
EndsMeet == CarriersMirror /\ PortsMeet

(* What was typed reaches the run as typed, a carrier of the file is never  *)
(* displaced by a survey, and the detector threshold in force is the typed  *)
(* one, else the file's.                                                    *)
IntentOutranksMeasurement ==
    \A n \in Nodes : Running(n, "algo") =>
        LET t == WiringOf(n)
            c == conf[n]
        IN  /\ "freq" \in c.typed => /\ "rx_freq" \notin c.typed => RxMHz(c) = c.val.freq
                                     /\ "tx_freq" \notin c.typed => TxMHz(c) = c.val.freq
            /\ Default(t, "freq_mhz", NoFreq) # NoFreq => "freq" \notin c.surveyed
            /\ TypedGate(c) => DetMult(c) = "typed"
            /\ ~TypedGate(c) /\ "det_mult" \in DOMAIN t.defaults
               /\ c.val.backend = "radio" => DetMult(c) = "file"

=============================================================================
