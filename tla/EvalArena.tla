----------------------------- MODULE EvalArena -----------------------------
(***************************************************************************)
(* The C data layer of one evaluation (Arena.hs, cbits/nn_arena.c): its    *)
(* stores are opened together, used from one thread, and torn down         *)
(* together.  Calls made before the layer is open and after it is closed   *)
(* are part of the model; a second opening is not, since Arena.hs rules it *)
(* out.                                                                    *)
(*                                                                         *)
(* The stores of symbols and of code share nothing with each other or with *)
(* the rest, so a behaviour uses those that interact: which ones is chosen *)
(* at the start.  Thunks and attribute sets have modules of their own.     *)
(***************************************************************************)
EXTENDS SymbolTable, Bytecode, Objects

CONSTANT Uses   \* the sets of stores a behaviour may use
ASSUME UsesStores == Uses \subseteq SUBSET {"symbols", "code", "envs", "objects"}

VARIABLES phase,   \* "unopened", "open", "closed"
          uses

vars == <<phase, uses, symbolVars, bytecodeVars, envVars, objectVars>>

Init ==
  /\ phase = "unopened" /\ uses \in Uses
  /\ NoSymbols /\ NoBytecode /\ NoPages /\ NoObjects

\* Each store aborts the process when its first memory is refused.
arenaInit ==
  /\ phase = "unopened" /\ making = None
  /\ nn_symbol_init /\ nn_env_init /\ nn_bytecode_init
  /\ phase' = "open"
  /\ UNCHANGED <<uses, objectVars>>

\* The classes' tracking arrays, the code, the pages, the symbols; nothing
\* else runs meanwhile.
arenaDestroy ==
  /\ phase = "open" /\ making = None
  /\ free_all /\ nn_bytecode_destroy /\ nn_env_destroy /\ nn_symbol_destroy
  /\ phase' = "closed"
  /\ UNCHANGED <<uses, making>>

Use(store) == store \in uses /\ UNCHANGED <<phase, uses>>

Next ==
  \/ arenaInit
  \/ arenaDestroy
  \/ Use("symbols") /\ SymbolNext /\ UNCHANGED <<bytecodeVars, envVars, objectVars>>
  \/ Use("code") /\ BytecodeNext /\ UNCHANGED <<symbolVars, envVars, objectVars>>
  \/ Use("envs") /\ making = None /\ EnvNext
     /\ UNCHANGED <<symbolVars, bytecodeVars, objectVars>>
  \/ Use("objects") /\ ObjectsNext /\ UNCHANGED <<symbolVars, bytecodeVars>>

Spec == Init /\ [][Next]_vars

=============================================================================
