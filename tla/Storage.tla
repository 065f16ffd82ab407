------------------------------ MODULE Storage -------------------------------
(***************************************************************************)
(* The files of a user (config.yaml, vault.enc, recovery.enc) and the      *)
(* commands that change them while no daemon runs (internal/app/app.go,    *)
(* internal/app/commands.go, internal/vault/store.go, internal/config):    *)
(* init, server add, edit and remove, config set, recovery enable, restore *)
(* and reset.                                                              *)
(*                                                                         *)
(* Each file is replaced atomically, but a command changes up to three of  *)
(* them one after the other.  Every save can fail, and the command can be  *)
(* killed between any two.  init and the server commands hold the          *)
(* lifecycle lock, the others do not.                                      *)
(*                                                                         *)
(* Abstracted: the configuration is the set of its aliases, a server's     *)
(* credentials are the number of the change that wrote them, passwords are *)
(* the right ones (a wrong one changes nothing), and a daemon that holds   *)
(* the lock is the time between two commands.                              *)
(***************************************************************************)
EXTENDS Naturals, FiniteSets

CONSTANTS
    Terminals,     \* processes that run commands
    Aliases,
    MaxChanges,    \* bound of the model: server changes
    MaxCommands,   \* bound of the model: commands
    MaxKeys,       \* bound of the model: recovery keys
    None           \* no file, no key, nobody

ASSUME StorageAssumption == MaxChanges \in Nat /\ MaxCommands \in Nat /\ MaxKeys \in Nat

Keys == 1..MaxKeys
ServerOps == {"add", "edit", "remove"}
Locked    == ServerOps \cup {"init"}
Unlocked  == {"config", "enable", "restore", "reset"}

VARIABLES
    config,     \* the aliases of config.yaml, or None
    vault,      \* the content of vault.enc, or None
    recovery,   \* the content of recovery.enc, or None
    lock,       \* who holds the lifecycle lock
    proc,       \* the command each terminal runs
    printed,    \* the recovery codes the user has seen
    (* Counters and history. *)
    commands, changes, keys,
    promised,   \* the change that is in force for an alias, as the user was told, or 0
    failed,     \* a command has reported a failure
    broken,     \* a command was killed, or failed twice: in a save and in its undo or the second look
    unfinished, \* a reset failed after its first change, or an init after its vault was published
    restored,   \* a restore has replaced the vault
    overlap     \* two commands ran at the same time, one of them without the lock

files   == <<config, vault, recovery>>
history == <<commands, changes, keys, promised, failed, broken, unfinished, restored, overlap>>
vars    == <<files, lock, proc, printed, history>>

\* The plaintext of a vault: vault.Data.
Data == [ servers : UNION { [A -> 1..MaxChanges] : A \in SUBSET Aliases }, key : Keys \cup {None} ]

\* None is none of the things it stands in for.
ASSUME NoneAssumption == None \notin Terminals \cup Keys /\ (\A A \in SUBSET Aliases : A # None) /\ None \notin Data

NoServers == [ a \in {} |-> 0 ]
EmptyData == [ servers |-> NoServers, key |-> None ]
Aliased(data) == DOMAIN data.servers

Idle == [ pc |-> "idle", op |-> None, alias |-> None, before |-> None, cfg |-> None, data |-> None ]

Init ==
    /\ config = None /\ vault = None /\ recovery = None
    /\ lock = None
    /\ proc = [p \in Terminals |-> Idle]
    /\ printed = {}
    /\ commands = 0 /\ changes = 0 /\ keys = 0
    /\ promised = [a \in Aliases |-> 0]
    /\ failed = FALSE /\ broken = FALSE /\ unfinished = FALSE /\ restored = FALSE /\ overlap = FALSE

-----------------------------------------------------------------------------
Busy == { p \in Terminals : proc[p].pc # "idle" }
At(p, pc) == proc[p].pc = pc
Goto(p, pc) == proc' = [proc EXCEPT ![p].pc = pc]

\* The command returns and its deferred calls release the lock.
Return(p) ==
    /\ proc' = [proc EXCEPT ![p] = Idle]
    /\ lock' = IF lock = p THEN None ELSE lock

\* It returns an error; "twice" if it could not undo what it had done.
Fail(p, twice) ==
    /\ Return(p)
    /\ failed' = TRUE
    /\ broken' = (broken \/ twice)
    /\ restored' = (restored \/ (twice /\ proc[p].op = "restore"))
    /\ UNCHANGED <<printed, commands, changes, keys, promised, unfinished, overlap>>

\* It returns an error and leaves what it has done, with nothing to undo it.
Abandon(p) ==
    /\ Return(p)
    /\ failed' = TRUE
    /\ unfinished' = TRUE
    /\ UNCHANGED <<printed, commands, changes, keys, promised, broken, restored, overlap>>

\* It refuses to do anything.
Refuse(p) ==
    /\ Return(p)
    /\ UNCHANGED <<files, printed, history>>

FirstStep(op) ==
    CASE op \in ServerOps -> "loadConfig" [] op = "init" -> "initVault" [] op = "config" -> "loadConfig"
      [] op \in {"enable", "restore"} -> "loadVault" [] op = "reset" -> "archiveConfig"

Mutant_Begin(p, op, a) ==
    /\ At(p, "idle")
    /\ commands < MaxCommands
    /\ op = "init" => config = None /\ vault = None
    /\ op = "restore" => recovery # None
    /\ UNCHANGED lock
    /\ proc' = [proc EXCEPT ![p] = [Idle EXCEPT !.pc = FirstStep(op), !.op = op, !.alias = a]]
    /\ commands' = commands + 1
    /\ overlap' = (overlap \/ \E q \in Busy : {op, proc[q].op} \cap Unlocked # {})
    /\ UNCHANGED <<files, printed, changes, keys, promised, failed, broken, unfinished, restored>>

\* A command starts, unless the lock is held or its files are there or missing.
Begin(p, op, a) ==
    /\ At(p, "idle")
    /\ commands < MaxCommands
    /\ op \in Locked => lock = None
    /\ op = "init" => config = None /\ vault = None
    /\ op = "restore" => recovery # None
    /\ lock' = IF op \in Locked THEN p ELSE lock
    /\ proc' = [proc EXCEPT ![p] = [Idle EXCEPT !.pc = FirstStep(op), !.op = op, !.alias = a]]
    /\ commands' = commands + 1
    /\ overlap' = (overlap \/ \E q \in Busy : {op, proc[q].op} \cap Unlocked # {})
    /\ UNCHANGED <<files, printed, changes, keys, promised, failed, broken, unfinished, restored>>

-----------------------------------------------------------------------------
(* withUnlockedVault, with the changes of add, edit and remove. *)

LoadConfig(p) ==
    /\ At(p, "loadConfig")
    /\ \/ config = None /\ Refuse(p)
       \/ /\ config # None
          /\ proc' = [proc EXCEPT ![p].pc = IF proc[p].op = "config" THEN "saveConfig" ELSE "loadVault",
                                  ![p].before = config, ![p].cfg = config]
          /\ UNCHANGED <<files, lock, printed, history>>

\* What the command makes of the servers it has loaded.
Changed(op, a, servers, n) ==
    IF op = "remove" THEN [ x \in DOMAIN servers \ {a} |-> servers[x] ]
    ELSE [ x \in DOMAIN servers \cup {a} |-> IF x = a THEN n ELSE servers[x] ]

Allowed(op, a, cfg, servers) ==
    CASE op = "add"    -> a \notin cfg
      [] op = "edit"   -> a \in cfg /\ a \in DOMAIN servers
      [] op = "remove" -> a \in cfg

\* The configuration lists every server of the vault.
NormalizedConfig(cfg, servers) == cfg \cup DOMAIN servers

\* The vault is opened, the user answers, and the new contents are computed.
LoadVault(p) ==
    LET op == proc[p].op
        a == proc[p].alias
    IN
    /\ At(p, "loadVault") /\ op \in ServerOps
    /\ \/ vault = None /\ Refuse(p)
       \/ vault # None /\ ~Allowed(op, a, proc[p].cfg, vault.servers) /\ Refuse(p)
       \/ /\ vault # None /\ Allowed(op, a, proc[p].cfg, vault.servers)
          /\ changes < MaxChanges
          /\ LET servers == Changed(op, a, vault.servers, changes + 1)
                 cfg == IF op = "remove" THEN proc[p].cfg \ {a} ELSE proc[p].cfg \cup {a}
             IN proc' = [proc EXCEPT ![p].pc = "saveConfig", ![p].cfg = NormalizedConfig(cfg, servers),
                                     ![p].data = [vault EXCEPT !.servers = servers]]
          /\ changes' = changes + 1
          /\ promised' = [promised EXCEPT ![a] = 0]      \* in doubt from here on
          /\ UNCHANGED <<files, lock, printed, commands, keys, failed, broken, unfinished, restored, overlap>>

\* saveConfigVerified
SaveConfig(p) ==
    /\ At(p, "saveConfig")
    /\ config' = proc[p].cfg
    /\ IF proc[p].op = "config" THEN Return(p) ELSE Goto(p, "saveVault") /\ UNCHANGED lock
    /\ UNCHANGED <<vault, recovery, printed, history>>

\* It fails with the file unchanged, or written and not readable any more.
SaveConfigFails(p) ==
    /\ At(p, "saveConfig")
    /\ \/ UNCHANGED config /\ Fail(p, FALSE)
       \/ config' = proc[p].cfg /\ Fail(p, TRUE)
    /\ UNCHANGED <<vault, recovery>>

\* What the user is told at the end of a command that succeeds.
Told(p) ==
    [ a \in Aliases |-> IF proc[p].op \in {"add", "edit"} /\ a = proc[p].alias
                        THEN proc[p].data.servers[a] ELSE promised[a] ]

Success(p) ==
    /\ Return(p)
    /\ promised' = Told(p)
    /\ restored' = (restored \/ proc[p].op = "restore")
    /\ printed' = IF proc[p].op = "enable" THEN printed \cup {proc[p].data.key} ELSE printed
    /\ UNCHANGED <<commands, changes, keys, failed, broken, unfinished, overlap>>

\* saveVaultVerified on vault.enc; the recovery vault follows if there is a key.
SaveVault(p) ==
    /\ At(p, "saveVault")
    /\ vault' = proc[p].data
    /\ IF proc[p].op # "restore" /\ proc[p].data.key # None
       THEN Goto(p, "saveRecovery") /\ UNCHANGED <<lock, printed, history>>
       ELSE Success(p)
    /\ UNCHANGED <<config, recovery>>

Mutant_SaveVaultFails(p) ==
    /\ At(p, "saveVault")
    /\ \/ UNCHANGED vault /\ Fail(p, FALSE)
       \/ vault' = proc[p].data /\ Fail(p, TRUE)
    /\ UNCHANGED <<config, recovery>>

\* A server command then puts the configuration back.
SaveVaultFails(p) ==
    /\ At(p, "saveVault")
    /\ \/ /\ UNCHANGED vault
          /\ IF proc[p].op \in ServerOps
             THEN Goto(p, "rollback") /\ UNCHANGED <<lock, printed, history>>
             ELSE Fail(p, FALSE)
       \/ /\ vault' = proc[p].data
          /\ IF proc[p].op \in ServerOps
             THEN /\ Goto(p, "rollback")
                  /\ broken' = TRUE
                  /\ UNCHANGED <<lock, printed, commands, changes, keys, promised, failed, unfinished, restored, overlap>>
             ELSE Fail(p, TRUE)
    /\ UNCHANGED <<config, recovery>>

Rollback(p) ==
    /\ At(p, "rollback")
    /\ \/ config' = proc[p].before /\ Fail(p, FALSE)
       \/ UNCHANGED config /\ Fail(p, TRUE)
    /\ UNCHANGED <<vault, recovery>>

\* saveVaultVerified on recovery.enc, sealed with the recovery key.
SaveRecovery(p) ==
    /\ At(p, "saveRecovery")
    /\ recovery' = proc[p].data
    /\ Success(p)
    /\ UNCHANGED <<config, vault>>

SaveRecoveryFails(p) ==
    /\ At(p, "saveRecovery")
    /\ recovery' \in {recovery, proc[p].data}
    /\ Fail(p, FALSE)
    /\ UNCHANGED <<config, vault>>

-----------------------------------------------------------------------------
(* recoveryCommand *)

\* enable: a key that exists is printed again, and otherwise made and saved.
EnableLoad(p) ==
    /\ At(p, "loadVault") /\ proc[p].op = "enable"
    /\ \/ vault = None /\ Refuse(p)
       \/ /\ vault # None /\ vault.key # None
          /\ printed' = printed \cup {vault.key}
          /\ Return(p)
          /\ UNCHANGED <<files, history>>
       \/ /\ vault # None /\ vault.key = None
          /\ keys < MaxKeys
          /\ keys' = keys + 1
          /\ proc' = [proc EXCEPT ![p].pc = "saveVault", ![p].data = [vault EXCEPT !.key = keys + 1]]
          /\ UNCHANGED <<files, lock, printed, commands, changes, promised, failed, broken, unfinished, restored, overlap>>

\* restore: the code opens the recovery vault, which replaces the vault.
RestoreLoad(p) ==
    /\ At(p, "loadVault") /\ proc[p].op = "restore"
    /\ \/ recovery = None /\ Refuse(p)
       \/ recovery # None /\ recovery.key \notin printed /\ Refuse(p)
       \/ /\ recovery # None /\ recovery.key \in printed
          /\ proc' = [proc EXCEPT ![p].pc = "saveVault", ![p].data = recovery]
          /\ UNCHANGED <<files, lock, printed, history>>

\* reset: the three files are archived one by one, then a new vault is made.
NextArchive(pc) ==
    CASE pc = "archiveConfig" -> "archiveVault" [] pc = "archiveVault" -> "archiveRecovery"
      [] pc = "archiveRecovery" -> "initVault"

Archive(p) ==
    LET pc == proc[p].pc IN
    /\ pc \in {"archiveConfig", "archiveVault", "archiveRecovery"}
    /\ config' = IF pc = "archiveConfig" THEN None ELSE config
    /\ vault' = IF pc = "archiveVault" THEN None ELSE vault
    /\ recovery' = IF pc = "archiveRecovery" THEN None ELSE recovery
    /\ promised' = [a \in Aliases |-> 0]
    /\ Goto(p, NextArchive(pc))
    /\ UNCHANGED <<lock, printed, commands, changes, keys, failed, broken, unfinished, restored, overlap>>

Archived(pc) ==
    CASE pc = "archiveConfig" -> config [] pc = "archiveVault" -> vault [] pc = "archiveRecovery" -> recovery

\* A file that is there cannot be renamed; those before it stay archived.
ArchiveFails(p) ==
    /\ proc[p].pc \in {"archiveConfig", "archiveVault", "archiveRecovery"}
    /\ Archived(proc[p].pc) # None
    /\ UNCHANGED files
    /\ IF proc[p].pc = "archiveConfig" THEN Fail(p, FALSE) ELSE Abandon(p)

-----------------------------------------------------------------------------
(* initialize, and the end of reset. *)

\* vault.Store.Initialize publishes an empty vault by a hard link, which fails if
\* there is one already.
InitVault(p) ==
    /\ At(p, "initVault")
    /\ vault = None
    /\ vault' = EmptyData
    /\ Goto(p, "initConfig")
    /\ UNCHANGED <<config, recovery, lock, printed, history>>

\* It fails before that, takes it back, or leaves it and cannot remove its temporary
\* file.
InitVaultFails(p) ==
    /\ At(p, "initVault")
    /\ \/ UNCHANGED vault /\ IF proc[p].op = "init" THEN Fail(p, FALSE) ELSE Abandon(p)
       \/ vault = None /\ vault' = EmptyData /\ Abandon(p)
    /\ UNCHANGED <<config, recovery>>

\* A new beginning: what went wrong before a reset does not matter any more.
InitConfig(p) ==
    /\ At(p, "initConfig")
    /\ config' = {}
    /\ Return(p)
    /\ failed' = (failed /\ proc[p].op = "init")
    /\ broken' = (broken /\ proc[p].op = "init")
    /\ restored' = (restored /\ proc[p].op = "init")
    /\ unfinished' = FALSE
    /\ UNCHANGED <<vault, recovery, printed, commands, changes, keys, promised, overlap>>

\* init removes both files, each if it can; reset leaves what there is.
InitConfigFails(p) ==
    /\ At(p, "initConfig")
    /\ \/ /\ proc[p].op = "init"
          /\ vault' \in {vault, None} /\ config' \in {config, {}, None}
          /\ Fail(p, vault' # None \/ config' # None)
       \/ /\ proc[p].op = "reset"
          /\ UNCHANGED vault /\ config' \in {config, {}}
          /\ Abandon(p)
    /\ UNCHANGED recovery

-----------------------------------------------------------------------------
\* The command is killed; the kernel releases its lock.
Kill(p) ==
    /\ p \in Busy
    /\ Return(p)
    /\ broken' = TRUE
    /\ UNCHANGED <<files, printed, commands, changes, keys, promised, failed, unfinished, restored, overlap>>

Step(p) ==
    \/ LoadConfig(p) \/ LoadVault(p) \/ SaveConfig(p) \/ SaveConfigFails(p)
    \/ SaveVault(p) \/ SaveVaultFails(p) \/ Rollback(p) \/ SaveRecovery(p) \/ SaveRecoveryFails(p)
    \/ EnableLoad(p) \/ RestoreLoad(p) \/ Archive(p) \/ ArchiveFails(p)
    \/ InitVault(p) \/ InitVaultFails(p) \/ InitConfig(p) \/ InitConfigFails(p)

Next ==
    \E p \in Terminals :
        \/ Step(p) \/ Kill(p)
        \/ \E op \in ServerOps, a \in Aliases : Begin(p, op, a)
        \/ \E op \in Unlocked \cup {"init"} : Begin(p, op, None)

Spec == Init /\ [][Next]_vars

-----------------------------------------------------------------------------
(* Correctness. *)

TypeOK ==
    /\ config \in (SUBSET Aliases) \cup {None}
    /\ vault \in Data \cup {None} /\ recovery \in Data \cup {None}
    /\ lock \in Terminals \cup {None}
    /\ printed \subseteq Keys
    /\ promised \in [Aliases -> 0..MaxChanges]
    /\ {failed, broken, unfinished, restored, overlap} \subseteq BOOLEAN

Quiet == Busy = {}

\* The vault and the configuration list the same servers, without which no unlock
\* succeeds, after any sequence of commands of which each may fail once, and again
\* after a reset whatever happened before.  A reset, or an init, that fails half-way
\* undoes nothing, but leaves at worst a vault that has no configuration, never one
\* that disagrees with it; a reset gets out of that, or an init if no vault was left.
\* (A restore brings back the servers of the last change that reached the recovery
\* vault, so it must not follow a failure.)
AliasesAgree ==
    Quiet /\ ~overlap /\ ~broken /\ ~(restored /\ failed) =>
        \/ config = None /\ (vault = None \/ unfinished)
        \/ config # None /\ vault # None /\ config = Aliased(vault)

\* No server is lost: what `server add` or `server edit` has reported is in the vault,
\* with these credentials, until the same alias is changed or the vault is reset,
\* even if other commands fail or are killed; and a restore preserves it.
ServersKept ==
    ~overlap /\ ~(restored /\ (failed \/ broken)) =>
        \A a \in Aliases : promised[a] # 0 =>
            vault # None /\ a \in Aliased(vault) /\ vault.servers[a] = promised[a]

\* "Store the displayed recovery code offline. If the master password is later
\* forgotten: aegis-ssh recovery restore": a displayed code of the vault opens the
\* recovery vault.
CodeOpensRecovery ==
    Quiet /\ ~overlap /\ ~broken /\ ~unfinished /\ vault # None /\ vault.key \in printed =>
        recovery # None /\ recovery.key = vault.key

=============================================================================
