------------------------------ MODULE EdgeTokens ------------------------------
(***************************************************************************)
(* The bootstrap tokens of an edge gateway (edge_token_store.py,           *)
(* edge_manager.py).  A token is recorded in the memory of the process     *)
(* that made it and in a register, a file that is loaded, changed and      *)
(* replaced.  A process reads the registers of several directories and     *)
(* writes one of them, the first it may write: the web application and the *)
(* token command, which run as different users, need not have the same.    *)
(* The web application consumes tokens, the token command only makes them. *)
(***************************************************************************)
EXTENDS Naturals

CONSTANTS
  Token,
  None    \* no token command is under way

VARIABLES
  memory,   \* _GLOBAL_ACTIVE_TOKENS of the web process
  register, \* the edge_tokens.json that the web application writes
  beside,   \* the one of another directory, which it reads
  command,  \* the token command has loaded the registers: what it will write
  made, expired,
  uses,     \* history: enrollments per token
  astray    \* history: tokens with a copy, when consumed, that stays

vars == <<memory, register, beside, command, made, expired, uses, astray>>

TypeOK ==
  /\ made \subseteq Token /\ memory \subseteq made
  /\ register \subseteq made /\ beside \subseteq made
  /\ expired \subseteq made /\ astray \subseteq made
  /\ command = None \/ command \subseteq made
  /\ uses \in [Token -> 0 .. 2]

-----------------------------------------------------------------------------
\* load_tokens: what the files and a process's memory have and has not expired.
LoadTokens(remembered) == (register \cup beside \cup remembered) \ expired

\* save_tokens says nothing of a failure.
SaveTokens(tokens, saved) == register' = IF saved THEN tokens ELSE register

Fresh(t) == t \notin made /\ made' = made \cup {t}

\* create_bootstrap_token in the web application.
RecordToken(t, saved) ==
  /\ Fresh(t)
  /\ memory' = memory \cup {t}
  /\ SaveTokens(LoadTokens(memory'), saved)
  /\ UNCHANGED <<beside, command, expired, uses, astray>>

\* The token command has a memory of its own, empty.  It loads the registers ...
CommandLoads(t) ==
  /\ command = None
  /\ Fresh(t)
  /\ command' = LoadTokens({t})
  /\ UNCHANGED <<memory, register, beside, expired, uses, astray>>

\* ... and replaces one, or fails to.
CommandSaves ==
  /\ command # None
  /\ \/ register' = command /\ UNCHANGED beside
     \/ beside' = command /\ UNCHANGED register
     \/ UNCHANGED <<register, beside>>
  /\ command' = None
  /\ UNCHANGED <<memory, made, expired, uses, astray>>

\* Mutant: only the file forgets the token.
ConsumeFromFile(t, saved) ==
  /\ memory' = memory
  /\ SaveTokens(LoadTokens(memory) \ {t}, saved)

\* consume_token: out of memory, then out of what files and memory have left.
ConsumeToken(t, saved) ==
  /\ memory' = memory \ {t}
  /\ SaveTokens(LoadTokens(memory') \ {t}, saved)

\* Copies that consume_token does not reach: in the other register, in a command's hands,
\* in a register that cannot be written.
Stays(t, saved) ==
  \/ t \in beside
  \/ command # None /\ t \in command
  \/ ~saved /\ t \in register

\* validate_and_consume_token accepts what load_tokens has.
Enroll(t, saved) ==
  /\ t \in LoadTokens(memory)
  /\ ConsumeToken(t, saved)
  /\ uses' = [uses EXCEPT ![t] = IF @ < 2 THEN @ + 1 ELSE @]
  /\ astray' = IF Stays(t, saved) THEN astray \cup {t} ELSE astray
  /\ UNCHANGED <<beside, command, made, expired>>

\* An expired token is forgotten, and refused.
EnrollLate(t, saved) ==
  /\ t \in expired
  /\ ConsumeToken(t, saved)
  /\ UNCHANGED <<beside, command, made, expired, uses, astray>>

Expire(t) ==
  /\ t \in made
  /\ expired' = expired \cup {t}
  /\ UNCHANGED <<memory, register, beside, command, made, uses, astray>>

\* The web application starts again: its memory is gone, the registers are not.
WebRestart ==
  /\ memory' = {}
  /\ UNCHANGED <<register, beside, command, made, expired, uses, astray>>

Init ==
  /\ memory = {} /\ register = {} /\ beside = {} /\ command = None
  /\ made = {} /\ expired = {}
  /\ uses = [t \in Token |-> 0] /\ astray = {}

Next ==
  \/ \E t \in Token :
       \/ CommandLoads(t) \/ Expire(t)
       \/ \E saved \in BOOLEAN : RecordToken(t, saved) \/ Enroll(t, saved) \/ EnrollLate(t, saved)
  \/ CommandSaves \/ WebRestart

Spec == Init /\ [][Next]_vars

-----------------------------------------------------------------------------
(* Properties. *)

\* A bootstrap token admits one home server, over restarts of the web application and
\* with the token in its memory and its register, whatever is made, expires or fails to
\* be written around it, but for a token with a copy that consume_token does not reach:
\* one in the register of another directory, one that a token command had loaded and
\* writes back, and one in the register when that cannot be written.
TokenAdmitsOnce == \A t \in Token : uses[t] <= 1 \/ t \in astray
=============================================================================
