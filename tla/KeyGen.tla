------------------------------- MODULE KeyGen -------------------------------
(***************************************************************************)
(* The /generate_key route of intkey_cli.py (generate_key, lines 882-911). *)
(* It names a new key pair after the current wall-clock second, runs       *)
(* `sawtooth keygen <name>` and returns the files <name>.priv and         *)
(* <name>.pub it then reads from /root/.sawtooth/keys.  The handler has no *)
(* await: the subprocess call and both reads block the event loop, so one  *)
(* request is one atomic step.                                             *)
(*                                                                         *)
(* The keygen utility is outside this repository (spec 1: delegated to an  *)
(* external keygen utility).  It writes a fresh pair unless the files      *)
(* already exist; without --force, which this call never passes, it then   *)
(* refuses.  KEYGEN_FORCE selects the other behaviour, and KEYGEN_ERRORS   *)
(* lets it fail without writing.  call() ignores the exit status.          *)
(***************************************************************************)
EXTENDS Naturals, Sequences, SequencesExt

CONSTANTS
    KeyPairs,         \* the key pairs keygen may draw, as model values
    NoFile,           \* a name with no key files in the key folder
    TicksPerSecond,   \* clock resolution: time.time() ticks per second
    MaxTicks,         \* bound on the clock, in ticks
    MaxRequests,      \* bound on answered /generate_key requests
    KEYGEN_FORCE,     \* TRUE: keygen overwrites existing files
    KEYGEN_ERRORS     \* TRUE: keygen may fail and write nothing

ASSUME TicksPerSecond \in Nat \ {0} /\ MaxTicks \in Nat /\ MaxRequests \in Nat
ASSUME KEYGEN_FORCE \in BOOLEAN /\ KEYGEN_ERRORS \in BOOLEAN

VARIABLES
    now,      \* the wall clock, in ticks
    keydir,   \* keydir[name]: the pair in <name>.priv/.pub, or NoFile
    drawn,    \* pairs keygen has generated so far
    issued    \* pairs returned with a 200, in answer order (a history)

keyVars == <<now, keydir, drawn, issued>>

\* Line 895: str(time.time()).split('.')[0] keeps the whole seconds, and
\* str of a natural number is injective, so the name is the second.
Names == 0 .. (MaxTicks \div TicksPerSecond)
KeyFileName(t) == t \div TicksPerSecond

KeyInit ==
    /\ now = 0
    /\ keydir = [n \in Names |-> NoFile]
    /\ drawn = {}
    /\ issued = <<>>

\* The wall clock advances between requests.
Tick ==
    /\ now < MaxTicks
    /\ now' = now + 1
    /\ UNCHANGED <<keydir, drawn, issued>>

\* `sawtooth keygen name` (line 896): the key folder it may leave.  It
\* draws a pair never drawn before; existing files stay unless forced.
KeygenResults(name) ==
    LET fresh   == {[keydir EXCEPT ![name] = p] : p \in KeyPairs \ drawn}
        writes  == IF keydir[name] = NoFile \/ KEYGEN_FORCE THEN fresh ELSE {}
        refuses == IF keydir[name] = NoFile /\ ~KEYGEN_FORCE
                   THEN {} ELSE {keydir}
    IN  writes \cup refuses \cup (IF KEYGEN_ERRORS THEN {keydir} ELSE {})

\* generate_key, lines 888-911: a GET names the pair after the current
\* second, runs keygen, and reads both files; open() raises (an HTTP 500)
\* when they do not exist.  Any other method answers an empty 200 and
\* changes nothing.
GenerateKey ==
    LET name == KeyFileName(now)
    IN  /\ Len(issued) < MaxRequests
        /\ \E dir \in KeygenResults(name) :
               /\ keydir' = dir
               /\ drawn' = (drawn \cup {dir[name]}) \ {NoFile}
               /\ issued' = IF dir[name] = NoFile THEN issued
                            ELSE Append(issued, dir[name])
        /\ UNCHANGED now

KeyNext == Tick \/ GenerateKey

KeySpec == KeyInit /\ [][KeyNext]_keyVars

-----------------------------------------------------------------------------
(* Properties                                                              *)

KeyTypeOK ==
    /\ now \in 0 .. MaxTicks
    /\ keydir \in [Names -> KeyPairs \cup {NoFile}]
    /\ drawn \subseteq KeyPairs
    /\ issued \in Seq(KeyPairs)

\* No two /generate_key responses hand out the same private key: every
\* caller of generate_key gets a pair of its own, even when two requests
\* arrive within the same wall-clock second.
KeysNotShared == IsInjective(issued)
=============================================================================
