------------------------------ MODULE MCStartup -----------------------------
(* The files and machines of Startup's instances.  Addresses have four      *)
(* bits: the LAN is 0-3, the machine is 1 on it, the clients are 8-11.       *)
EXTENDS Startup

Open(k)   == [kind |-> "open", key |-> k, val |-> << >>]
Put(k, v) == [kind |-> "set", key |-> k, val |-> v]
Item(v)   == [kind |-> "item", key |-> "", val |-> v]
Junk      == [kind |-> "junk", key |-> "", val |-> << >>]

File(clients, rest) ==
  << Open("tunnels"), Item(<< "file" >>), Put("clients", clients), Put("dns", << "ip", 15 >>) >>
    \o rest
Clients == << "net", 8, 2 >>
Good    == File(Clients, << Open("pin"), Item(<< "ip", 9 >>) >>)

Whole == << Line("[Interface]", "ok"), Line("PrivateKey", "ok"), Line("Table", "off"),
            Line("[Peer]", "ok"), Line("PublicKey", "ok"), Line("Endpoint", "ok"),
            Line("AllowedIPs", "ok"), Line("PersistentKeepalive", "ok") >>
KeyLast == << Line("[Interface]", "ok"), Line("PrivateKey", "ok"), Line("Table", "off"),
              Line("[Peer]", "ok"), Line("AllowedIPs", "ok"), Line("PublicKey", "ok") >>
TwoPeers == Whole \o << Line("[Peer]", "ok"), Line("PublicKey", "ok"), Line("AllowedIPs", "ok") >>
BadKey   == << Line("[Interface]", "ok"), Line("PrivateKey", "bad"), Line("Table", "off"),
               Line("[Peer]", "ok"), Line("PublicKey", "ok") >>
AsSold   == << Line("[Interface]", "ok"), Line("PrivateKey", "ok"), Line("DNS", "ok"),
               Line("[Peer]", "ok"), Line("PublicKey", "ok") >>

Eth(n)   == << "eth0" >> :> n @@ << "eth1" >> :> << << "net", 13, 2 >> >>
Home     == [route |-> << "eth0" >>, addr |-> Eth(<< << "net", 1, 2 >> >>)]
NewRouter == [Home EXCEPT !.addr = Eth(<< << "net", 5, 2 >> >>)]
NoRoute  == [Home EXCEPT !.route = << >>]
TwoAddrs == [Home EXCEPT !.addr = Eth(<< << "net", 1, 2 >>, << "net", 10, 3 >> >>)]

Two   == "p1" :> {"run", "check"} @@ "p2" :> Commands @@ "p3" :> {}
Three == "p1" :> {"run"} @@ "p2" :> {"check", "token"} @@ "p3" :> {"run", "token", "stop"}

Plain == [lines |-> Good, wg |-> Whole, host |-> Home, later |-> NewRouter, kernel |-> TRUE,
          wggo |-> FALSE, tools |-> TRUE, open6 |-> FALSE, root |-> TRUE,
          env |-> "none", may |-> Two, upsets |-> {}]

\* The configuration file, on a machine with nothing wrong with it.
Edited ==
  {[Plain EXCEPT !.lines = f] : f \in
     {File(c, << >>) : c \in {<< "net", 0, 1 >>, << "net", 2, 3 >>, << "net", 0, 2 >>,
                               << "net", 9, 2 >>, << "bad" >>}}
     \cup {File(Clients, r) : r \in
       {<< Put("lan", << "net", 8, 1 >>) >>, << Put("lan", << "bad" >>) >>,
        << Put("wan_interface", << "eth1" >>) >>, << Put("wan_interface", << "eth2" >>) >>,
        << Put("dashboard", << "false" >>) >>, << Put("dashboard", << "bad" >>) >>,
        << Put("default", << "pin" >>), Put("default", << "bond" >>) >>,
        << Open("bond"), Item(<< "ip", 4 >>) >>,
        << Open("pin"), Put("listen", << "bad" >>), Item(<< "ip", 9 >>) >>,
        << Open("pin"), Item(<< "ip", 9 >>), Junk, Item(<< "ip", 10 >>) >>,
        << Open("pin"), Item(<< "ip", 9 >>), Open("bond"), Item(<< "ip", 10 >>), Open("pin"),
           Item(<< "ip", 11 >>) >>,
        << Open("disks"), Item(<< "bad" >>), Item(<< "disk" >>) >>,
        << Open("bonded"), Item(<< "ip", 9 >>) >>,
        << Open("tunnels"), Item(<< "missing" >>) >>}}}

\* The machine, with nothing wrong with the configuration file.
Machines ==
  {[Plain EXCEPT !.wg = w, !.kernel = k, !.wggo = ~k] :
     w \in {Whole, KeyLast, TwoPeers, BadKey, AsSold}, k \in BOOLEAN}
  \cup {[Plain EXCEPT !.host = h] : h \in {NoRoute, TwoAddrs}}
  \cup {[Plain EXCEPT !.env = e] : e \in {"short", "set"}}
  \cup {[Plain EXCEPT !.later = NoRoute], [Plain EXCEPT !.kernel = FALSE],
        [Plain EXCEPT !.tools = FALSE], [Plain EXCEPT !.root = FALSE],
        [Plain EXCEPT !.open6 = TRUE], [Plain EXCEPT !.open6 = TRUE, !.tools = FALSE],
        [Plain EXCEPT !.kernel = FALSE, !.wggo = TRUE, !.root = FALSE]}

\* What happens to a machine with nothing wrong with it.
Troubled ==
  {[Plain EXCEPT !.may = Three, !.upsets = u] :
     u \in {{"kill", "delete"}, {"kill", "fault"}, {"flush", "move"}}}

\* Every file that ends in three of these lines, read by one command.
Lines == {Open("pin"), Open("disks"), Open("bonded"), Item(<< "ip", 9 >>), Item(<< "bad" >>),
          Put("dns", << "ip", 14 >>), Put("dashboard", << "bad" >>), Junk}
Alone == "p1" :> {"run", "check"} @@ "p2" :> {} @@ "p3" :> {}
Short == {[Plain EXCEPT !.may = Alone, !.lines = File(Clients, << a, b, c >>)] :
            a \in Lines, b \in Lines, c \in Lines}

AllScenes == Short \cup Edited \cup Machines \cup Troubled

\* The instances of what does not hold.
Pair(k)  == "p1" :> {"run"} @@ "p2" :> {k} @@ "p3" :> {}
CheckToo == {[Plain EXCEPT !.may = Pair("check")]}
TokenToo == {[Plain EXCEPT !.may = Pair("token")]}
NoKernel == {[Plain EXCEPT !.may = Pair("check"), !.kernel = FALSE, !.wggo = TRUE, !.wg = KeyLast]}
OpenSix  == {[Plain EXCEPT !.may = Pair("check"), !.open6 = TRUE]}
CutOff   == {[Plain EXCEPT !.may = Pair("stop"), !.later = NoRoute, !.upsets = {"move"}]}
=============================================================================
