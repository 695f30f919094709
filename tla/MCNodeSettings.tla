--------------------------- MODULE MCNodeSettings ---------------------------
(* What a node knows before it runs, as one of three systems in an          *)
(* execution: the settings it resolves (NodeSettings, its variables named   *)
(* n_... here), the inventory of the live nodes (NodeRecords, r_...), or the*)
(* folder its surveys are in (SurveyFolder).                                *)
(*                                                                          *)
(* Wiring files modelled on the ones in deploy/workspace/topologies, and    *)
(* the surveys, flags and published ports of a small testbed.               *)
EXTENDS SurveyFolder, Wiring, TLC

Nowhere == [host |-> "", ports |-> <<>>]

Nd(id, role, host, ports, usrp) ==
    [id |-> id, role |-> role, host |-> host, ports |-> ports, adv |-> Nowhere,
     radio |-> usrp, lora |-> FALSE]

At(nd, host, ports) == [nd EXCEPT !.adv = [host |-> host, ports |-> ports]]

Side(path, freq) == [path |-> path, freq |-> freq, gate |-> 0]
ListOf(s) == [kind |-> "list", of |-> s]
Tx(id, tx) == [args |-> id, tx |-> tx, rx |-> NoSide]
Rx(id, rx) == [args |-> id, tx |-> NoSide, rx |-> rx]
Both(id, tx, rx) == [args |-> id, tx |-> tx, rx |-> rx]

Via(a, b, up, down) == [from |-> a, to |-> b, up |-> up, down |-> down]
Listed(s) == [shape |-> "list", of |-> s]
File(nodes, links, defaults) ==
    [nodes |-> nodes, links |-> links, defaults |-> defaults]
Nothing == [x \in {} |-> ""]

Plain(id) == Side("A:A", NoFreq)

(* Radio-free: a star, a chain whose relay names the next hop's port, a ring*)
(* of published peers.                                                      *)
Star == File(<<Nd("hub", "server", "10.0.0.1", [net |-> 5710], NoRadio),
               Nd("c0", "client", "10.0.0.2", <<>>, NoRadio),
               Nd("c1", "client", "10.0.0.3", <<>>, NoRadio)>>,
             Listed(<<Via(2, 1, "", ""), Via(3, 1, "tcp/ip", "")>>), Nothing)

Chain == File(<<Nd("c0", "client", "127.0.0.1", <<>>, NoRadio),
                Nd("mid", "relay", "127.0.0.1", [net |-> 5700], NoRadio),
                Nd("hub", "server", "127.0.0.1", [net |-> 5701], NoRadio)>>,
              Listed(<<Via(1, 2, "tcp", "tcp"), Via(2, 3, "tcp", "tcp")>>),
              [medium |-> "tcp"])

Ring == File(<<At(Nd("p0", "", "10.1.0.1", [peer |-> 5900], NoRadio),
                  "siteA", [peer |-> 30801]),
               Nd("p1", "", "10.1.0.2", <<>>, NoRadio),
               At(Nd("p2", "", "10.1.0.3", <<>>, NoRadio), "siteB",
                  [peer |-> 30907])>>,
             [shape |-> "ring"], [agents |-> 3, peer_port |-> 5900])

(* Over the air: a published sink with two transmitters; a chain with one   *)
(* hop over the air; two peers.                                             *)
Cross(default) ==
    File(<<At(Nd("sink", "server", "10.42.0.107", [net |-> 5700, ack |-> 5610],
                 Rx("N210", Side("A:0", NoFreq))),
              "siteA", [net |-> 35700, ack |-> 35999]),
           Nd("t0", "client", "10.42.0.108", <<>>, Tx("B0", Plain("B0"))),
           Nd("t1", "client", "10.42.0.109", <<>>, Tx("B1", Plain("B1")))>>,
         Listed(<<Via(2, 1, "ota", "tcp"), Via(3, 1, "wireless", "tcp")>>),
         [freq_mhz |-> default, det_mult |-> 6])

Mixed == File(<<Nd("t0", "client", "10.0.0.1", <<>>, Tx("B0", Plain("B0"))),
                Nd("mid", "relay", "10.0.0.2", [net |-> 5700],
                   Rx("N210", Side("A:0", NoFreq))),
                Nd("hub", "server", "10.0.0.3", [net |-> 5701], NoRadio)>>,
              Listed(<<Via(1, 2, "wireless", "tcp"), Via(2, 3, "tcp", "tcp")>>),
              [freq_mhz |-> OneFreq(917)])

AirPeers == File(<<Nd("src", "peer", "127.0.0.1", [peer |-> 5800],
                      Both("B2", Plain("B2"), Plain("B2"))),
                   Nd("snk", "peer", "127.0.0.1", [peer |-> 5801],
                      Both("B3", Plain("B3"), Plain("B3")))>>,
                 Listed(<<Via(1, 2, "wireless", "wireless")>>),
                 [freq_mhz |-> [kind |-> "quoted", of |-> <<919>>]])

(* Point to point, a carrier per direction: the file that ships, the one    *)
(* numbers name, its draft, and the reply switched to a socket or off.      *)
Pair(data, ack, blank, defaults) ==
    File(<<Nd("src", "tx", "127.0.0.1", <<>>,
              Both("B2", Side("A:A", data), Side("A:B", ack))),
           Nd("snk", "rx", "127.0.0.1", <<>>,
              Both("B3", Side("A:B", ack), Side("A:A", blank)))>>,
         Listed(<<Via(1, 2, "wireless", "wireless")>>), defaults)

Data == ListOf(<<915, 905>>)
Ack  == ListOf(<<925, 935>>)

Shipped == Pair(Data, Ack, Data, [freq_mhz |-> OneFreq(915)])
Silent  == Pair(Data, Ack, Data, Nothing)
Fixed   == Pair(OneFreq(915), OneFreq(925), OneFreq(915), [ack |-> "rf"])
Draft   == Pair(OneFreq(915), OneFreq(925), BlankFreq, [ack_wireless |-> "true"])
Socket  == Pair(OneFreq(918), OneFreq(925), OneFreq(918), [ack_wireless |-> "false"])
OneWay  == Pair(OneFreq(918), OneFreq(925), OneFreq(918), [ack |-> "none"])

(* Refused at load.                                                         *)
NoWay == File(<<Nd("t0", "client", "", <<>>, Tx("B0", Plain("B0"))),
                Nd("t1", "server", "", <<>>, Tx("B1", Plain("B1")))>>,
              Listed(<<Via(1, 2, "wireless", "tcp")>>), Nothing)

Good == {Star, Chain, Ring, Cross(OneFreq(917)), Mixed, AirPeers,
         Shipped, Silent, Fixed, Draft, Socket, OneWay, NoWay}

Completed == [f \in {Draft} |-> Fixed]

(* Surveys: what the sink of a pair can use, now and after the band moved,  *)
(* what its source hears, and the N210.                                     *)
Use(c, lo, hi) == [carrier |-> c, lo |-> lo, hi |-> hi]
Survey(key, path, at, options) ==
    [key |-> key, args |-> key, serial |-> key, band |-> "", path |-> path,
     at |-> at, options |-> options, use |-> 1, gate |-> 8]

SinkNow   == Survey("B3", "A:A", 1, <<Use(905, 900, 910), Use(940, 936, 944)>>)
SinkLater == Survey("B3", "A:A", 2, <<Use(916, 912, 920)>>)
SourceAir == Survey("B2", "A:B", 1, <<Use(935, 930, 940)>>)
SinkN210  == Survey("N210", "A:0", 1, <<Use(906, 900, 908)>>)

Later == {SinkLater}
Before == {{}, {SinkNow, SourceAir}, {SinkN210}}

Hosts == [id \in {"hub", "c0", "c1", "mid", "p0", "p1", "p2", "sink", "t0", "t1",
                  "src", "snk"} |->
            CASE id = "src" -> <<"B2", "host-src">> [] id = "snk" -> <<"B3", "host-snk">>
              [] id \in {"sink", "mid"} -> <<"N210", "host-n">>
              [] OTHER -> <<"host-x">>]

Typing(mode, val, set) ==
    [mode |-> mode, val |-> val, usrp_set |-> set, no_profile |-> FALSE]

Bare == Typing("algo", <<>>, <<>>)
Gate == Typing("algo", [backend |-> "radio"],
               <<[key |-> "det_mult", of |-> 5, by |-> "typed"]>>)

Typeable ==
    [id \in DOMAIN Hosts |->
        CASE id \in {"src", "snk"} ->
                {Bare, Gate, Typing("algo", [freq |-> 921], <<>>),
                 Typing("algo", [backend |-> "radio"], <<>>),
                 [Bare EXCEPT !.no_profile = TRUE],
                 Typing("modem", <<>>, <<>>)}
          [] id = "c0" -> {Bare, Typing("algo", [net_host |-> "@hub-0"], <<>>),
                           Typing("algo", [net_host |-> "@hub"], <<>>),
                           Typing("algo", [freq |-> 2000000], <<>>)}
          [] id = "t0" -> {Bare, Typing("modem", <<>>, <<>>)}
          [] OTHER -> {Bare}]

Blocks == {[pod |-> "@hub-0", parts |-> {"@hub"}, site |-> "siteA",
            map |-> [x \in {5710} |-> 35710]],
           [pod |-> "@hub-1", parts |-> {"@hub"}, site |-> "siteB",
            map |-> [x \in {5700} |-> 35701]]}

VARIABLES n_raw, n_surveys, n_stage, n_conf, n_read

settings == <<n_raw, n_surveys, n_stage, n_conf, n_read>>

Settings == INSTANCE NodeSettings WITH
    Files <- Good, Filled <- Completed, Pool <- Later, Prior <- Before,
    Flags <- Typeable, HostKeys <- Hosts, Sessions <- Blocks,
    raw <- n_raw, surveys <- n_surveys, stage <- n_stage, conf <- n_conf,
    read <- n_read

-----------------------------------------------------------------------------
(* Sessions of the inventory: two on one radio, one of them by hand, and    *)
(* one on another radio; link.json is a file of people.                     *)
VARIABLES r_files, r_pc, r_beats, r_mine, r_todo, r_doomed, r_faults, r_spoilt

records == <<r_files, r_pc, r_beats, r_mine, r_todo, r_doomed, r_faults,
             r_spoilt>>

SessionsRun == {"a", "b", "c"}

Records == INSTANCE NodeRecords WITH
    Sessions <- SessionsRun, Once <- {"c"}, Authored <- {"link"}, MaxFaults <- 1,
    Serial <- [s \in SessionsRun |-> IF s = "b" THEN "radio-2" ELSE "radio-1"],
    Host <- [s \in SessionsRun |->
               CASE s = "a" -> "host-a" [] s = "b" -> "host-b" [] OTHER -> "host-c"],
    files <- r_files, pc <- r_pc, beats <- r_beats, mine <- r_mine,
    todo <- r_todo, doomed <- r_doomed, faults <- r_faults, spoilt <- r_spoilt

-----------------------------------------------------------------------------
(* Runs of prepare_phy.py: of all the radios of a box, of one of them by    *)
(* force, and a draft from what is there; each execution leaves one out.    *)
(* The B210 has surveys of two bands already.                               *)
Device(class, serial, addr, path) ==
    [class |-> class, serial |-> serial, addr |-> addr, band |-> "ism915", path |-> path]

B210 == Device("b210", "B3", "", "A:A")
X310 == Device("x310", "X4", "40.2", "A:0")

PreparersRun == {"all", "one", "redraft"}

AskedRun ==
    [p \in PreparersRun |->
        [mode |-> CASE p = "redraft" -> "topology" [] OTHER -> p,
         node |-> IF p = "one" THEN "B3" ELSE "site",
         force |-> p = "one", write |-> TRUE]]

RadiosOf(p) ==
    CASE p = "all" -> <<X310, B210>> [] p = "one" -> <<B210>> [] OTHER -> <<X310>>

PlansRun ==
    {[p \in PreparersRun |-> IF p = out THEN <<>> ELSE RadiosOf(p)] :
        out \in PreparersRun}

HostsRun == [p \in PreparersRun |-> <<"site", "host">>]

SweepsRun == {SinkNow.options}

PriorRun ==
    {[SinkNow EXCEPT !.band = band, !.at = 0] : band \in {"ism915", "vert900"}}

-----------------------------------------------------------------------------
(* A system that is not run is over.                                        *)
NoRecords ==
    /\ r_files = [n \in Records!Names |-> Records!Absent]
    /\ r_pc = [s \in SessionsRun |-> "ended"]
    /\ r_beats = [s \in SessionsRun |-> FALSE]
    /\ r_mine = [s \in SessionsRun |-> Records!Nowhere]
    /\ r_todo = [s \in SessionsRun |-> {}]
    /\ r_doomed = [s \in SessionsRun |-> Records!Nowhere]
    /\ r_faults = 1 /\ r_spoilt = {"link"}

NoSettings ==
    /\ n_raw = NoWay /\ n_surveys = Later
    /\ n_stage = [n \in Settings!Nodes |-> "refused"]
    /\ n_conf = [n \in Settings!Nodes |-> <<>>]
    /\ n_read = [n \in Settings!Nodes |-> <<>>]

NoFolder ==
    /\ clock = MaxClock /\ faults = MaxFaults
    /\ files = {} /\ freqs = {} /\ drafts = {}
    /\ pc = [p \in Preparers |-> "gone"]
    /\ todo = [p \in Preparers |-> <<>>]
    /\ radio = [p \in Preparers |-> Nobody]
    /\ found = [p \in Preparers |-> Unmeasured]
    /\ doomed = [p \in Preparers |-> {}]
    /\ target = [p \in Preparers |-> NoName]
    /\ verdict = [p \in Preparers |-> ""]
    /\ published = {} /\ taken = {} /\ clashed = {} /\ raced = {}

MCInit == \/ Init /\ NoSettings /\ NoRecords
          \/ Settings!Init /\ NoRecords /\ NoFolder
          \/ Records!Init /\ NoSettings /\ NoFolder
MCNext == \/ Next /\ UNCHANGED <<settings, records>>
          \/ Settings!Next /\ UNCHANGED <<vars, records>>
          \/ Records!Next /\ UNCHANGED <<vars, settings>>
MCSpec == MCInit /\ [][MCNext]_<<vars, settings, records>> /\ Records!Fairness

(* Two ends of a link that resolve against the same file and surveys meet   *)
(* (topology_radio.py, run_algo.py apply_topology), though what was typed   *)
(* reaches the run as typed, and a survey never displaces a carrier of the  *)
(* file (run_algo.py apply_phy_profile, apply_topology).                    *)
ResolvesRight == Settings!EndsMeet /\ Settings!IntentOutranksMeasurement

(* As long as a session runs, the inventory settles on the truth            *)
(* (discover-node.py).                                                      *)
InventorySettles == Records!InventorySettles
=============================================================================
