--------------------------- MODULE MCConnections ---------------------------
(* An instance of Connections for TLC: the hardcoded account of a command   *)
(* line, and two that a bootstrap server has provided.                      *)
EXTENDS Connections, TLC

CONSTANTS s0, s1, s2, c1, c2, c3

\* All short command lines, and longer ones that put -b and -p, or -i and -s,
\* in either order, repeat an option, or take an option for a value.
Words == {"-b", "-p", "-4", "-s", "-t", "7000", "AB"}

MCCommandLines ==
    UNION {[1..n -> Words] : n \in 0..3}
    \cup {<<"-x">>, <<"-i", "AB">>, <<"-s", "ABC">>, <<"-h", "other", "-4">>,
          <<"-b", "-i", "id", "-s", "AB">>, <<"-s", "AB", "-i", "id">>,
          <<"-i", "id", "-s", "LONG">>,
          <<"-p", "7000", "-b", "-4">>, <<"-p", "1", "-b", "-p", "7000">>,
          <<"-S", "16", "-c", "-l", "56830">>, <<"-S", "17">>, <<"-n", "-c", "-c">>,
          <<"-t", "60", "-t", "7000", "-n", "name">>, <<"-h", "[::1", "-b">>}

MCKeyLength == "AB" :> 2 @@ "ABC" :> 3 @@ "LONG" :> 34 @@ "7000" :> 4

MCProvisioned ==
    s1 :> [scheme |-> "coap", host |-> "other", port |-> "5683",
           psk |-> FALSE, identity |-> FALSE, key |-> 0]
    @@ s2 :> [scheme |-> "coap", host |-> "third", port |-> "5684",
              psk |-> TRUE, identity |-> TRUE, key |-> 1]
CellsSymmetry == Permutations(Cells)
=============================================================================
