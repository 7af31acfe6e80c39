----------------------------- MODULE HostPolicy -----------------------------
(***************************************************************************)
(* Which address a host may be reached at: the classification and          *)
(* authorization of addresses (crates/core/src/security/network) and the   *)
(* split-horizon resolver (src/network/dns).                               *)
(*                                                                         *)
(* An IPv4 address is four octets, an IPv6 address eight segments.  A host *)
(* is what the code asks of its text: lit holds the address parse_host_    *)
(* literal finds in it, if any; local, whether it is localhost or ends in  *)
(* .localhost; tld, its last label.                                        *)
(***************************************************************************)
EXTENDS Integers, Sequences, SequencesExt

CONSTANT OPENNIC_TLDS

Ok(v) == [ok |-> TRUE, v |-> v]
Err(e) == [ok |-> FALSE, e |-> e]

-----------------------------------------------------------------------------
(* Addresses *)

Octet == 0..255
IsV4(ip) == Len(ip) = 4

is_loopback(ip) == IF IsV4(ip) THEN ip[1] = 127 ELSE ip = <<0, 0, 0, 0, 0, 0, 0, 1>>

is_publicly_routable_v4(ip) ==
  LET a == ip[1]
      b == ip[2]
      c == ip[3]
  IN  ~ \/ ip = <<0, 0, 0, 0>>                                        \* unspecified
        \/ a = 127                                                    \* loopback
        \/ a = 10 \/ (a = 172 /\ b \in 16..31) \/ (a = 192 /\ b = 168)  \* private
        \/ (a = 169 /\ b = 254)                                       \* link-local
        \/ a \in 224..239 \/ ip = <<255, 255, 255, 255>>              \* multicast, broadcast
        \/ <<a, b, c>> \in {<<192, 0, 2>>, <<198, 51, 100>>, <<203, 0, 113>>}
        \/ (a = 100 /\ b \in 64..127)                                 \* carrier-grade NAT
        \/ <<a, b, c>> = <<192, 0, 0>>
        \/ (a = 198 /\ b \in {18, 19})
        \/ a >= 240

Octets(hi, lo) == <<hi \div 256, hi % 256, lo \div 256, lo % 256>>

\* Mutation: Teredo's inverted client address is taken as it stands.
teredo_plain(ip) ==
  CASE SubSeq(ip, 1, 6) = <<0, 0, 0, 0, 0, 65535>> -> Ok(Octets(ip[7], ip[8]))
    [] SubSeq(ip, 1, 6) = <<0, 0, 0, 0, 0, 0>> /\ ip[7] # 0 -> Ok(Octets(ip[7], ip[8]))
    [] ip[1] = 8194 -> Ok(Octets(ip[2], ip[3]))
    [] ip[1] = 8193 /\ ip[2] = 0 -> Ok(Octets(ip[7], ip[8]))
    [] OTHER -> Err("none")

\* IPv4-mapped, IPv4-compatible, 6to4 (2002::/16) and Teredo (2001:0::/32).
embedded_ipv4(ip) ==
  CASE SubSeq(ip, 1, 6) = <<0, 0, 0, 0, 0, 65535>> -> Ok(Octets(ip[7], ip[8]))
    [] SubSeq(ip, 1, 6) = <<0, 0, 0, 0, 0, 0>> /\ ip[7] # 0 -> Ok(Octets(ip[7], ip[8]))
    [] ip[1] = 8194 -> Ok(Octets(ip[2], ip[3]))
    [] ip[1] = 8193 /\ ip[2] = 0 -> Ok(Octets(65535 - ip[7], 65535 - ip[8]))
    [] OTHER -> Err("none")

is_publicly_routable_v6(ip) ==
  IF embedded_ipv4(ip).ok THEN is_publicly_routable_v4(embedded_ipv4(ip).v)
  ELSE ~ \/ ip = <<0, 0, 0, 0, 0, 0, 0, 0>> \/ is_loopback(ip)
         \/ ip[1] >= 65280                                     \* multicast
         \/ ip[1] \in 64512..65023                             \* unique local
         \/ ip[1] \in 65152..65215                             \* link-local
         \/ (ip[1] = 8193 /\ ip[2] = 3512)                     \* documentation
         \/ SubSeq(ip, 1, 4) = <<256, 0, 0, 0>>                \* discard only

is_publicly_routable(ip) ==
  IF IsV4(ip) THEN is_publicly_routable_v4(ip) ELSE is_publicly_routable_v6(ip)

-----------------------------------------------------------------------------
(* Hosts *)

is_local_host(host) == host.local \/ (host.lit # <<>> /\ is_loopback(host.lit[1]))

authorize_resolved_address(host, ip, allow_private_literal) ==
  IF host.lit # <<>>
  THEN host.lit[1] = ip /\ (allow_private_literal \/ is_publicly_routable(ip))
  ELSE IF is_local_host(host) THEN is_loopback(ip)
  ELSE is_publicly_routable(ip)

-----------------------------------------------------------------------------
(* Resolution *)

select_pool_for_domain(host) == IF host.tld \in OPENNIC_TLDS THEN "OpenNic" ELSE "Primary"

\* The first routable IPv4 address, else the first routable IPv6 address.  An
\* answer that only points inward is no transient failure.
resolve_ip(answer) ==
  IF ~answer.ok THEN answer
  ELSE LET usable == SelectSeq(answer.v, is_publicly_routable)
           v4 == SelectSeq(usable, IsV4)
       IN  IF v4 # <<>> THEN Ok(v4[1])
           ELSE IF usable # <<>> THEN Ok(usable[1])
           ELSE IF answer.v # <<>> THEN Err("SecurityViolation")
           ELSE Err("Network")

\* Of the errors of a lookup only timeouts and broken connections.
is_transient_dns_error(e) == e = "Timeout"

resolve_with_pool_fallback(primary, fallback) ==
  IF ~primary.ok /\ is_transient_dns_error(primary.e) THEN fallback ELSE primary

resolve_domain(host, primary, opennic, allow_private_literal) ==
  LET looked_up ==
        IF select_pool_for_domain(host) = "OpenNic" THEN resolve_ip(opennic)
        ELSE resolve_with_pool_fallback(resolve_ip(primary), resolve_ip(opennic))
      ip == IF host.lit # <<>> THEN Ok(host.lit[1])
            ELSE IF host.local THEN Ok(<<127, 0, 0, 1>>)
            ELSE looked_up
  IN  IF ip.ok /\ ~authorize_resolved_address(host, ip.v, allow_private_literal)
      THEN Err("SecurityViolation") ELSE ip

-----------------------------------------------------------------------------
(* What an address stands for *)

\* addr is the IPv4 address ip, plainly or inside an IPv6 address: mapped,
\* compatible, 6to4, or Teredo, which inverts its bits.
WrittenAs(addr, ip) ==
  LET hi == 256 * ip[1] + ip[2]
      lo == 256 * ip[3] + ip[4]
  IN  \/ addr = ip
      \/ addr = <<0, 0, 0, 0, 0, 65535, hi, lo>>
      \/ addr = <<0, 0, 0, 0, 0, 0, hi, lo>>
      \/ Len(addr) = 8 /\ <<addr[1], addr[2], addr[3]>> = <<8194, hi, lo>>
      \/ Len(addr) = 8 /\ <<addr[1], addr[2]>> = <<8193, 0>>
                       /\ <<addr[7], addr[8]>> = <<65535 - hi, 65535 - lo>>

=============================================================================
