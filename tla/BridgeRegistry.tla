--------------------------- MODULE BridgeRegistry ---------------------------
(***************************************************************************)
(* The hub's registry of bridges, class BridgeRegistry of                  *)
(* packages/hub/src/registry.ts, seen for one bridge id: every operation   *)
(* reads and writes the entry of its own id only.                          *)
(*                                                                         *)
(* Time is counted in ticks and an entry keeps the age of its              *)
(* lastHeartbeatAt instead of the timestamp; ages past the TTL are all     *)
(* alike. lastHeartbeatAt is taken from the payload, the sender's clock:   *)
(* the age of an entry is that of the message it came in, not zero. The    *)
(* port stands for the address of the bridge instance that registered.     *)
(***************************************************************************)
EXTENDS Naturals

CONSTANTS
    Port,    \* the ports bridge instances listen on
    Ttl      \* bridgeTtlMs, in ticks

ASSUME RegistryAssumption == Ttl \in Nat /\ Port \subseteq Nat \ {0}

VARIABLE entry   \* the record of the bridge id, NoEntry when the map has none

NoEntry == [port |-> 0, age |-> 0]
Entry   == [port : Port, age : 0..(Ttl + 1)]

RegistryTypeOK == entry \in Entry \cup {NoEntry}

RegistryInit == entry = NoEntry

Older(age) == IF age > Ttl THEN age ELSE age + 1

IsStaleAtTtl == entry.age >= Ttl
IsStale == entry.age > Ttl

\* get() and listActive(): what the hub routes to and shows.
Listed == entry # NoEntry /\ ~IsStale

\* register(): any earlier entry of the id is overwritten.
Register(port, age) == entry' = [port |-> port, age |-> age]

RefreshedNow(age) == 0
RefreshedNever(age) == entry.age
Refreshed(age) == age

\* heartbeat() of an id the map knows; the port is not looked at.
Heartbeat(age) == entry # NoEntry /\ entry' = [entry EXCEPT !.age = Refreshed(age)]

\* pruneStale(), from the hub's timer.
PruneStale == entry # NoEntry /\ IsStale /\ entry' = NoEntry

EntryAges == entry' = IF entry = NoEntry THEN NoEntry ELSE [entry EXCEPT !.age = Older(@)]

=============================================================================
