---------------------------- MODULE MCEntryStore ----------------------------
(* Instances of EntryStore for TLC. *)
EXTENDS EntryStore, TLC

CONSTANTS k1, k2, h1, h2, w1, w2, v1

OneKeyHost == (k1 :> h1)
TwoKeyHost == (k1 :> h1 @@ k2 :> h2)

Admin(h, ks)    == [kind |-> "admin", host |-> h, urls |-> ks]
CliPurge(h, ks) == [kind |-> "cli_purge", host |-> h, urls |-> ks]
CliReset(h)     == [kind |-> "cli_reset", host |-> h, urls |-> Keys]

OneKeyCommands == {Admin(h1, {k1}), CliReset(AnyHost)}
HostCommands   == {Admin(h1, Keys), CliPurge(h2, Keys)}
AdminCommand   == {Admin(h1, Keys)}
CliPurgeAll    == {CliPurge(AnyHost, Keys)}
NoCommands     == {}

WorkerSymmetry == Permutations(Workers)
=============================================================================
