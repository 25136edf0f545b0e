------------------------------ MODULE Startup ------------------------------
(***************************************************************************)
(* What main() makes of its command line before the loop begins            *)
(* (lwm2mclient.cpp 763-1095): the options, read one after the other, and  *)
(* the hardcoded account they give the Security object.                    *)
(*                                                                         *)
(* An argument is a value; only its use as an option, a number or a key    *)
(* matters.  Whether it is an option depends on its place alone: "-p -b"   *)
(* asks for the port "-b".                                                 *)
(***************************************************************************)
EXTENDS Naturals, Sequences, FiniteSets

CONSTANTS
    CommandLines,       \* sequences of arguments
    Numbers,            \* arguments sscanf takes for an int
    BlockSizes,         \* those lwm2m_set_coap_block_size accepts
    KeyLength,          \* the number of digits of those that are hexadecimal
    None                \* NULL

Flags   == {"-b", "-c", "-4"}
Settings == [t |-> "-t", i |-> "-i", s |-> "-s", n |-> "-n", l |-> "-l", h |-> "-h",
             p |-> "-p", S |-> "-S"]
Valued  == {Settings[f] : f \in DOMAIN Settings}

Defaults == {"300", "ITRON_TEST_lwm2mc", "56830", "5683", "5685", "127.0.0.1", "[::1]"}

\* What a setting may be: an argument, a default, or NULL.
Texts == STRING \cup Defaults \cup {None}

ASSUME CommandLinesAssumption ==
    /\ \A line \in CommandLines : line \in Seq(STRING)
    /\ \A word \in DOMAIN KeyLength : KeyLength[word] \in Nat
    /\ None \notin STRING

VARIABLES
    stage,          \* how far main() has come
    argv, opt,      \* the command line, without the program's name
    config,         \* the locals that options set
    account         \* the hardcoded instance of the Security object

startVars == <<stage, argv, opt, config, account>>

Factory == [t |-> "300", i |-> None, s |-> None, n |-> "ITRON_TEST_lwm2mc",
            l |-> "56830", h |-> None, p |-> "5683", S |-> None,
            flags |-> {}, serverPortChanged |-> FALSE]

NoAccount == [host |-> None, port |-> None, psk |-> FALSE, identity |-> FALSE, key |-> 0,
              bootstrap |-> FALSE]

StartInit ==
    /\ stage = "options"
    /\ argv \in CommandLines /\ opt = 1
    /\ config = Factory
    /\ account = NoAccount

-----------------------------------------------------------------------------
(* The options: 823-939. *)

\* The bootstrap port replaces one that was asked for.
TakeFlagAnyway(c, flag) ==
    [c EXCEPT !.flags = @ \cup {flag}, !.p = IF flag = "-b" THEN "5685" ELSE @]

TakeFlag(c, flag) ==
    [c EXCEPT !.flags = @ \cup {flag},
              !.p = IF flag = "-b" /\ ~c.serverPortChanged THEN "5685" ELSE @]

TakeValue(c, f, word) ==
    [c EXCEPT ![f] = word, !.serverPortChanged = @ \/ f = "p"]

\* sscanf must find a number after -t and a valid block size after -S.
Accepted(f, word) == /\ f = "t" => word \in Numbers
                     /\ f = "S" => word \in BlockSizes

\* An option that takes a value, followed by an acceptable one.
ValueFollows(line, k, f) ==
    line[k] = Settings[f] /\ k < Len(line) /\ Accepted(f, line[k + 1])

Reading == stage = "options" /\ opt <= Len(argv)

ReadFlag ==
    /\ Reading /\ argv[opt] \in Flags
    /\ config' = TakeFlag(config, argv[opt])
    /\ opt' = opt + 1
    /\ UNCHANGED <<stage, argv, account>>

ReadValue ==
    /\ Reading
    /\ \E f \in DOMAIN Settings :
          /\ ValueFollows(argv, opt, f)
          /\ config' = TakeValue(config, f, argv[opt + 1])
    /\ opt' = opt + 2
    /\ UNCHANGED <<stage, argv, account>>

\* No option, an unknown one, or one without (an acceptable) value: return 0.
Usage ==
    /\ Reading /\ argv[opt] \notin Flags
    /\ ~\E f \in DOMAIN Settings : ValueFollows(argv, opt, f)
    /\ stage' = "usage"
    /\ UNCHANGED <<argv, opt, config, account>>

\* The default server is chosen by the address family.
OptionsRead ==
    /\ stage = "options" /\ opt > Len(argv)
    /\ stage' = "socket"
    /\ config' = [config EXCEPT !.h = IF @ # None THEN @
                                      ELSE IF "-4" \in config.flags THEN "127.0.0.1" ELSE "[::1]"]
    /\ UNCHANGED <<argv, opt, account>>

-----------------------------------------------------------------------------
(* The socket, the key and the account: 945-1095. *)

\* create_socket, the conversion of the key, an object or the engine's
\* configuration may fail: return -1.
StartFails ==
    /\ stage = "socket"
    /\ stage' = "failed"
    /\ UNCHANGED <<argv, opt, config, account>>

\* A key that is not hexadecimal fails.  With an odd number of digits the last
\* octet is written behind the buffer and the conversion runs past the argument
\* into whatever follows: it may fail, crash or come to an end.
KeyConverts == config.s # None => config.s \in DOMAIN KeyLength

OddKey == config.s \in DOMAIN KeyLength /\ KeyLength[config.s] % 2 = 1

\* An identity without a key: pskLen is still 65535, and as many octets are
\* copied from NULL.
Crash ==
    /\ stage = "socket" /\ KeyConverts
    /\ OddKey \/ (config.i # None /\ config.s = None)
    /\ stage' = "crashed"
    /\ UNCHANGED <<argv, opt, config, account>>

\* get_security_object.
Account ==
    [host      |-> config.h,
     port      |-> config.p,
     psk       |-> config.i # None \/ config.s # None,
     identity  |-> config.i # None,
     key       |-> IF config.s = None THEN 0 ELSE KeyLength[config.s] \div 2,
     bootstrap |-> "-b" \in config.flags]

\* main's locals are not used after this.
Started ==
    /\ stage = "socket" /\ KeyConverts
    /\ ~(config.i # None /\ config.s = None)
    /\ account' = Account
    /\ stage' = "loop"
    /\ argv' = <<>> /\ opt' = 1 /\ config' = Factory

StartNext == ReadFlag \/ ReadValue \/ Usage \/ OptionsRead \/ StartFails \/ Crash \/ Started

-----------------------------------------------------------------------------
(* What a command line asks for, whatever the order of its options. *)

\* Where the option after the one at k is read.
NextPlace(line, k) == IF line[k] \in Valued THEN k + 2 ELSE k + 1

Followed(line, places) ==
    /\ 1 \in places
    /\ \A k \in places : NextPlace(line, k) <= Len(line) => NextPlace(line, k) \in places

\* Which arguments stand where an option is read: the first one, and with each
\* of them the next.
OptionPlaces(line) ==
    {k \in 1..Len(line) :
        \A places \in SUBSET (1..Len(line)) : Followed(line, places) => k \in places}

WellFormed(line) ==
    \A k \in OptionPlaces(line) :
        \/ line[k] \in Flags
        \/ \E f \in DOMAIN Settings : ValueFollows(line, k, f)

\* The value of an option: what its last occurrence gives, or the default.
Asked(line, f, default) ==
    LET ks == {k \in OptionPlaces(line) : line[k] = Settings[f]}
    IN  IF ks = {} THEN default
        ELSE line[(CHOOSE k \in ks : \A j \in ks : j <= k) + 1]

Given(line, flag) == \E k \in OptionPlaces(line) : line[k] = flag

\* The options mean the same in any order: the port asked for, wherever -p
\* stands, else the bootstrap server's with -b, else the standard one; for every
\* other option its last value.  Any other command line ends in the usage.
SettingsAsGiven ==
    /\ stage = "usage" => ~WellFormed(argv)
    /\ stage = "socket" =>
          /\ WellFormed(argv)
          /\ config.p = Asked(argv, "p", IF Given(argv, "-b") THEN "5685" ELSE "5683")
          /\ config.h = Asked(argv, "h", IF Given(argv, "-4") THEN "127.0.0.1" ELSE "[::1]")
          /\ \A f \in {"t", "i", "s", "n", "l", "S"} : config[f] = Asked(argv, f, Factory[f])
          /\ config.flags = {flag \in Flags : Given(argv, flag)}
=============================================================================
