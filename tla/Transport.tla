----------------------------- MODULE Transport -----------------------------
(***************************************************************************)
(* Where a connection value leads, and what connect_database of db.rs lets *)
(* it do. A value has a sequence of hosts (names or socket directories)    *)
(* and a sequence of literal addresses (hostaddr), either possibly empty.  *)
(***************************************************************************)
EXTENDS Naturals, SequencesExt

CONSTANTS
  LocalHosts,   \* localhost, 127.0.0.1, ::1 and Unix-socket directories
  Sockets,      \* those that are Unix-socket directories
  Loopback,     \* loopback addresses
  Inside        \* Inside[p]: the server's own address where p leads; p itself,
                \* unless the address is translated on the way

(* The client tries the addresses if there are any, else the hosts, in     *)
(* turn: postgres::Config::connect.                                        *)
Peers(c) == IF c.addrs /= <<>> THEN ToSet(c.addrs) ELSE ToSet(c.hosts)

(* A loopback peer: the name localhost is taken to resolve to one.         *)
LocalPeers == LocalHosts \cup Loopback

HostsOnlyLocal(c) ==   \* mutation: the addresses are not looked at
  ToSet(c.hosts) \subseteq LocalHosts

AllHostsAreLocal(c) ==
  ToSet(c.hosts) \subseteq LocalHosts /\ ToSet(c.addrs) \subseteq Loopback

(* inet_server_addr() is the server's own address of the connection: null  *)
(* for a Unix socket.                                                      *)
ServerAddress(peer) == IF peer \in Sockets THEN "null" ELSE Inside[peer]
=============================================================================
