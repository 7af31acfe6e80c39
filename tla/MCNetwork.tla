------------------------------ MODULE MCNetwork -----------------------------
EXTENDS NetworkWorker

(***************************************************************************)
(* Two hosts, a name and a literal address of the local network.  A lookup *)
(* answers with one public address behind every way of writing a local one.*)
(***************************************************************************)

Public == <<9734, 18176, 0, 0, 0, 0, 0, 4369>>
Lan == <<192, 168, 0, 1>>

\* 192.168.0.1 inside an IPv6 address: mapped, compatible, 6to4, and Teredo, which
\* inverts its bits.
LanInside == <<<<0, 0, 0, 0, 0, 65535, 49320, 1>>, <<0, 0, 0, 0, 0, 0, 49320, 1>>,
               <<8194, 49320, 1, 0, 0, 0, 0, 1>>,
               <<8193, 0, 1, 1, 0, 0, 65535 - 49320, 65535 - 1>>>>
Site == [lit |-> <<>>, local |-> FALSE, tld |-> "com"]
Printer == [lit |-> <<Lan>>, local |-> FALSE, tld |-> "1"]
MCHosts == [site |-> Site, lan |-> Printer]
Cmd(id, kind, host, method) ==
  [id |-> id, kind |-> kind, host |-> host, method |-> method, payload_ok |-> TRUE, headers_ok |-> TRUE]
Post == Cmd(1, "Fetch", "site", "POST")
Open == Cmd(2, "Navigate", "site", "GET")
OpenLan == Cmd(3, "Navigate", "lan", "GET")
ImageLan == Cmd(4, "FetchImage", "lan", "GET")
Icon == Cmd(6, "FetchFile", "site", "GET")
Unserialisable == [Cmd(7, "Fetch", "site", "GET") EXCEPT !.payload_ok = FALSE]
Unsafe == [Cmd(8, "Fetch", "site", "POST") EXCEPT !.headers_ok = FALSE]
Store == Cmd(9, "StorageStore", "site", "GET")
Alias == Cmd(10, "NetworkRequest", "site", "GET")

MCCommands == {Post, Open, OpenLan, ImageLan, Icon, Unserialisable, Unsafe, Store, Alias}
MCWorkloads == {{Post, Open}, {Post, OpenLan}, {OpenLan, ImageLan},
                {Unsafe, Unserialisable}, {Icon, Store, Alias, Unserialisable}}
MCAnswers == {Ok(<<Lan>> \o LanInside \o <<Public>>), Err("Timeout")}
MCGrants == {[token |-> "t", scope |-> {"POST", "TRACE"}, exp |-> <<2>>]}
MCLocal == {Lan}
MCVaults == {<<>>, "site" :> [owner |-> "site", token |-> "old", methods |-> {"POST"}, exp |-> 1]}

=============================================================================
