--------------------------- MODULE StorageProofs ----------------------------
(***************************************************************************)
(* Proofs about the files of a user, for any number of terminals, servers, *)
(* commands and recovery keys: the vault and the configuration agree after *)
(* commands that fail once, and no server that was reported is lost.       *)
(***************************************************************************)
EXTENDS Storage, TLAPS

-----------------------------------------------------------------------------
(* The inductive invariant. *)

Files == (SUBSET Aliases) \cup {None}

ProcState ==
    [ pc     : {"idle", "loadConfig", "loadVault", "saveConfig", "saveVault", "rollback", "saveRecovery",
                "archiveConfig", "archiveVault", "archiveRecovery", "initVault", "initConfig"},
      op     : Locked \cup Unlocked \cup {None},
      alias  : Aliases \cup {None},
      before : Files,
      cfg    : Files,
      data   : Data \cup {None} ]

\* What the locals of a command are at each of its steps.
PhaseOf(r) ==
    /\ r.pc = "loadConfig" => r.op \in ServerOps \cup {"config"}
    /\ r.pc = "loadVault" => r.op \in ServerOps \cup {"enable", "restore"} /\ (r.op \in ServerOps => r.cfg # None)
    /\ r.op \in ServerOps /\ r.pc \in {"loadVault", "saveConfig", "saveVault"} => r.before # None
    /\ r.pc = "saveConfig" => r.op \in ServerOps \cup {"config"} /\ r.cfg # None
    /\ r.pc = "saveVault" => r.op \in ServerOps \cup {"enable", "restore"} /\ r.data # None
    /\ r.pc = "saveRecovery" => r.op \in ServerOps \cup {"enable"} /\ r.data # None
    /\ r.pc = "rollback" => r.op \in ServerOps /\ r.before # None
    /\ r.pc \in {"archiveConfig", "archiveVault", "archiveRecovery"} => r.op = "reset"
    /\ r.pc \in {"initVault", "initConfig"} => r.op \in {"init", "reset"}
    /\ r.pc # "idle" /\ r.op \in ServerOps => r.alias \in Aliases
    /\ r.op \in ServerOps /\ r.pc \in {"saveConfig", "saveVault", "saveRecovery"} =>
          r.data # None /\ (r.op # "remove" => r.alias \in Aliased(r.data))
    /\ r.op \in {"enable", "restore"} /\ r.pc \in {"saveVault", "saveRecovery"} => r.data.key # None

Types ==
    /\ TypeOK
    /\ proc \in [Terminals -> ProcState]
    /\ commands \in Nat /\ changes \in 0..MaxChanges /\ keys \in 0..MaxKeys
    /\ \A p \in Terminals : PhaseOf(proc[p])

\* A command that needs the lock has it, and so without an overlap there is one
\* command at a time.
SoleInv ==
    /\ \A p \in Busy : proc[p].op \in Locked => lock = p
    /\ ~overlap => \A p, q \in Busy : p = q

\* The servers a command is about to save are those of the vault but for its own.
Amends(r) ==
    /\ vault # None /\ r.data.key = vault.key
    /\ \A a \in Aliases \ {r.alias} :
          /\ a \in Aliased(r.data) <=> a \in Aliased(vault)
          /\ a \in Aliased(vault) => r.data.servers[a] = vault.servers[a]
    /\ promised[r.alias] = 0

Unpromised == \A a \in Aliases : promised[a] = 0

\* What a command has read of the files is still what they hold.
FreshOf(r) ==
    /\ r.op \in ServerOps /\ r.pc = "loadVault" => r.cfg = config /\ r.before = config /\ config # None
    /\ r.op \in ServerOps /\ r.pc = "saveConfig" => r.before = config /\ config # None /\ Amends(r)
    /\ r.op \in ServerOps /\ r.pc = "saveVault" => r.cfg = config /\ r.before # None /\ Amends(r)
    /\ r.op = "config" /\ r.pc = "saveConfig" => r.cfg = config
    /\ r.op = "enable" /\ r.pc = "saveVault" => /\ vault # None /\ vault.key = None
                                                /\ r.data.servers = vault.servers
    /\ r.op = "restore" /\ r.pc = "saveVault" => r.data = recovery /\ recovery # None
    /\ r.pc = "saveRecovery" => vault = r.data /\ r.data.key # None
    /\ r.pc = "rollback" => vault # None
    /\ r.op = "init" /\ r.pc = "initVault" => config = None /\ vault = None
    /\ r.op = "init" /\ r.pc = "initConfig" => config = None /\ vault = EmptyData
    /\ r.op = "reset" /\ r.pc \in {"archiveVault", "archiveRecovery", "initVault", "initConfig"} =>
          config = None /\ Unpromised
    /\ r.op = "reset" /\ r.pc \in {"archiveRecovery", "initVault"} => vault = None
    /\ r.op = "reset" /\ r.pc \in {"initVault", "initConfig"} => recovery = None
    /\ r.op = "reset" /\ r.pc = "initConfig" => vault = EmptyData

FreshInv == ~overlap => \A p \in Terminals : FreshOf(proc[p])

\* The files agree, or a vault has no configuration because its reset or init is
\* unfinished, except in the middle of a command, which will make them agree.
Agree == \/ config = None /\ (vault = None \/ unfinished)
         \/ config # None /\ vault # None /\ config = Aliased(vault)

Unsettled(r) ==
    \/ r.op \in ServerOps /\ r.pc \in {"saveVault", "rollback"}
    \/ r.pc \in {"archiveVault", "archiveRecovery", "initConfig"}

Settles(r) ==
    /\ r.op \in ServerOps /\ r.pc = "saveConfig" => r.cfg = Aliased(r.data)
    /\ r.op \in ServerOps /\ r.pc = "saveVault" => r.cfg = Aliased(r.data) /\ r.before = Aliased(vault)
    /\ r.pc = "rollback" => r.before = Aliased(vault)

AgreeInv ==
    ~overlap /\ ~broken /\ ~(restored /\ failed) =>
        /\ Agree \/ \E p \in Terminals : Unsettled(proc[p])
        /\ \A p \in Terminals : Settles(proc[p])

\* Unless a command has failed the recovery vault has the servers of the vault.
Mirrored == recovery # None => vault # None /\ vault.key # None /\ recovery.servers = vault.servers

MirrorInv ==
    ~overlap /\ ~broken /\ ~failed =>
        Mirrored \/ \E p \in Terminals : proc[p].pc \in {"saveRecovery", "archiveRecovery"}

IInv == Types /\ SoleInv /\ FreshInv /\ AgreeInv /\ MirrorInv /\ ServersKept

-----------------------------------------------------------------------------
(* The plaintext of a vault. *)

Servers == UNION { [A -> 1..MaxChanges] : A \in SUBSET Aliases }

\* Servers are functions from some of the aliases.
LEMMA ServersType ==
    /\ \A f \in Servers : DOMAIN f \in SUBSET Aliases /\ f \in [DOMAIN f -> 1..MaxChanges]
    /\ \A A \in SUBSET Aliases : \A f \in [A -> 1..MaxChanges] : f \in Servers
BY DEF Servers

\* The plaintexts, and what is not one.
LEMMA DataType ==
    /\ Data = [ servers : Servers, key : Keys \cup {None} ]
    /\ \A d \in Data : Aliased(d) \in SUBSET Aliases
    /\ EmptyData \in Data /\ Aliased(EmptyData) = {} /\ EmptyData.key = None
    /\ None \notin Terminals /\ None \notin Keys /\ None \notin SUBSET Aliases /\ None \notin Data
<1>1. Data = [ servers : Servers, key : Keys \cup {None} ]
  BY DEF Data, Servers
<1>2. \A d \in Data : Aliased(d) \in SUBSET Aliases
  BY <1>1, ServersType DEF Aliased
<1>3. NoServers \in [{} -> 1..MaxChanges] /\ DOMAIN NoServers = {}
  BY DEF NoServers
<1>4. NoServers \in Servers
  BY <1>3, ServersType
<1>5. EmptyData \in Data /\ Aliased(EmptyData) = {} /\ EmptyData.key = None
  BY <1>1, <1>3, <1>4 DEF EmptyData, Aliased
<1> QED
  BY <1>1, <1>2, <1>5, NoneAssumption

-----------------------------------------------------------------------------
(* A step of a command. *)

\* What is known of a command that runs alone.
LEMMA Known ==
    ASSUME IInv, NEW p \in Terminals, proc[p].pc # "idle"
    PROVE  /\ proc[p] \in ProcState /\ PhaseOf(proc[p])
           /\ proc[p].op \in Locked \cup Unlocked
           /\ ~overlap => FreshOf(proc[p]) /\ \A q \in Terminals : q # p => proc[q].pc = "idle"
           /\ ~overlap /\ ~broken /\ ~(restored /\ failed) => /\ Agree \/ Unsettled(proc[p])
                                                            /\ Settles(proc[p])
           /\ ~overlap /\ ~broken /\ ~failed => Mirrored \/ proc[p].pc \in {"saveRecovery", "archiveRecovery"}
<1>1. proc[p] \in ProcState /\ PhaseOf(proc[p])
  BY DEF IInv, Types
<1>2. proc[p].op \in Locked \cup Unlocked
  BY <1>1 DEF ProcState, PhaseOf, Locked, Unlocked, ServerOps
<1>3. ~overlap => \A q \in Terminals : q # p => proc[q].pc = "idle"
  BY DEF IInv, SoleInv, Busy
<1>4. ~overlap => \A q \in Terminals : Unsettled(proc[q]) => q = p
  BY <1>3 DEF Unsettled
<1>5. ~overlap => \A q \in Terminals : proc[q].pc \in {"saveRecovery", "archiveRecovery"} => q = p
  BY <1>3
<1>6. ~overlap => FreshOf(proc[p])
  BY DEF IInv, FreshInv
<1> QED
  BY <1>1, <1>2, <1>3, <1>4, <1>5, <1>6 DEF IInv, AgreeInv, MirrorInv

\* A command that is nowhere asks for nothing.
LEMMA IdleAsksNothing ==
    ASSUME NEW r, r.pc = "idle"
    PROVE  FreshOf(r)' /\ Settles(r)' /\ ~Unsettled(r)
BY DEF FreshOf, Settles, Unsettled

\* The command of terminal p moves to the state r.
LEMMA Moves ==
    ASSUME IInv, NEW p \in Terminals, proc[p].pc # "idle", NEW r \in ProcState, PhaseOf(r),
           proc' = [proc EXCEPT ![p] = r],
           \/ r.op = proc[p].op /\ lock' = lock
           \/ r.pc = "idle" /\ lock' = IF lock = p THEN None ELSE lock,
           overlap' = overlap,
           TypeOK', commands' \in Nat, changes' \in 0..MaxChanges, keys' \in 0..MaxKeys,
           ~overlap => FreshOf(r)',
           ~overlap /\ ~broken' /\ ~(restored' /\ failed') => (Agree' \/ Unsettled(r)) /\ Settles(r)',
           ~overlap /\ ~broken' /\ ~failed' => Mirrored' \/ r.pc \in {"saveRecovery", "archiveRecovery"},
           ServersKept'
    PROVE  IInv'
<1>1. /\ proc' \in [Terminals -> ProcState] /\ proc'[p] = r
      /\ \A q \in Terminals : q # p => proc'[q] = proc[q]
  BY DEF IInv, Types
<1>2. Types'
  BY <1>1 DEF IInv, Types
<1>3. SoleInv'
  BY <1>1 DEF IInv, SoleInv, Busy
<1>4. ~overlap => \A q \in Terminals : q # p => proc'[q].pc = "idle"
  BY <1>1 DEF IInv, SoleInv, Busy
<1>5. FreshInv'
  BY <1>1, <1>4, IdleAsksNothing DEF FreshInv
<1>6. AgreeInv'
  BY <1>1, <1>4, IdleAsksNothing DEF AgreeInv
<1>7. MirrorInv'
  BY <1>1 DEF MirrorInv
<1> QED
  BY <1>2, <1>3, <1>5, <1>6, <1>7 DEF IInv

\* The command of terminal p returns.
LEMMA Returns ==
    ASSUME IInv, NEW p \in Terminals, proc[p].pc # "idle", Return(p),
           overlap' = overlap,
           TypeOK', commands' \in Nat, changes' \in 0..MaxChanges, keys' \in 0..MaxKeys,
           ~overlap /\ ~broken' /\ ~(restored' /\ failed') => Agree',
           ~overlap /\ ~broken' /\ ~failed' => Mirrored',
           ServersKept'
    PROVE  IInv'
<1>1. /\ Idle \in ProcState /\ Idle.pc = "idle" /\ PhaseOf(Idle)
  BY DEF Idle, ProcState, Files, PhaseOf
<1>2. proc' = [proc EXCEPT ![p] = Idle] /\ lock' = IF lock = p THEN None ELSE lock
  BY DEF Return
<1>3. FreshOf(Idle)' /\ Settles(Idle)'
  BY <1>1, IdleAsksNothing
<1> HIDE DEF Idle
<1> QED
  BY <1>1, <1>2, <1>3, Moves

\* What is known of the files and the counters.
LEMMA Typed ==
    ASSUME IInv
    PROVE  /\ config \in Files /\ vault \in Data \cup {None} /\ recovery \in Data \cup {None}
           /\ lock \in Terminals \cup {None} /\ printed \subseteq Keys /\ promised \in [Aliases -> 0..MaxChanges]
           /\ failed \in BOOLEAN /\ broken \in BOOLEAN /\ unfinished \in BOOLEAN /\ restored \in BOOLEAN /\ overlap \in BOOLEAN
           /\ commands \in Nat /\ changes \in 0..MaxChanges /\ keys \in 0..MaxKeys
           /\ ServersKept
BY DEF IInv, Types, TypeOK, Files

\* The command returns an error.
LEMMA Fails ==
    ASSUME IInv, NEW p \in Terminals, proc[p].pc # "idle", NEW twice \in BOOLEAN, Fail(p, twice),
           config' \in Files, vault' \in Data \cup {None}, recovery' \in Data \cup {None},
           ~overlap /\ ~broken /\ ~restored /\ ~twice => Agree',
           ~overlap /\ ~restored' =>
              vault' = vault \/ \A a \in Aliases : promised[a] # 0 =>
                  vault' # None /\ a \in Aliased(vault') /\ vault'.servers[a] = promised[a]
    PROVE  IInv'
<1>1. /\ Return(p) /\ failed' = TRUE /\ broken' = (broken \/ twice)
      /\ restored' = (restored \/ (twice /\ proc[p].op = "restore"))
      /\ UNCHANGED <<printed, commands, changes, keys, promised, unfinished, overlap>>
  BY DEF Fail
<1>2. /\ lock \in Terminals \cup {None} /\ printed \subseteq Keys /\ promised \in [Aliases -> 0..MaxChanges]
      /\ failed \in BOOLEAN /\ broken \in BOOLEAN /\ unfinished \in BOOLEAN /\ restored \in BOOLEAN /\ overlap \in BOOLEAN
      /\ commands \in Nat /\ changes \in 0..MaxChanges /\ keys \in 0..MaxKeys
      /\ ServersKept
  BY Typed
<1>3. TypeOK'
  BY <1>1, <1>2 DEF TypeOK, Files, Return
<1>4. ServersKept'
  BY <1>1, <1>2 DEF ServersKept
<1>5. ~broken' /\ ~(restored' /\ failed') => ~broken /\ ~restored /\ ~twice
  BY <1>1
<1> QED
  BY <1>1, <1>2, <1>3, <1>4, <1>5, Returns

\* The command returns an error and leaves what it has done.
LEMMA Abandons ==
    ASSUME IInv, NEW p \in Terminals, proc[p].pc # "idle", Abandon(p),
           config' \in Files, vault' \in Data \cup {None}, recovery' \in Data \cup {None},
           ~overlap => Agree',
           ~overlap /\ ~restored => vault' = vault \/ \A a \in Aliases : promised[a] = 0
    PROVE  IInv'
<1>1. /\ Return(p) /\ failed' = TRUE /\ unfinished' = TRUE
      /\ UNCHANGED <<printed, commands, changes, keys, promised, broken, restored, overlap>>
  BY DEF Abandon
<1>2. /\ lock \in Terminals \cup {None} /\ printed \subseteq Keys /\ promised \in [Aliases -> 0..MaxChanges]
      /\ broken \in BOOLEAN /\ restored \in BOOLEAN /\ overlap \in BOOLEAN
      /\ commands \in Nat /\ changes \in 0..MaxChanges /\ keys \in 0..MaxKeys
      /\ ServersKept
  BY Typed
<1>3. TypeOK'
  BY <1>1, <1>2 DEF TypeOK, Files, Return
<1>4. ServersKept'
  BY <1>1, <1>2 DEF ServersKept
<1> QED
  BY <1>1, <1>2, <1>3, <1>4, Returns

\* The command refuses to do anything, before it has changed a file.
LEMMA Refuses ==
    ASSUME IInv, NEW p \in Terminals, proc[p].pc \in {"loadConfig", "loadVault"}, Refuse(p)
    PROVE  IInv'
<1>1. Return(p) /\ UNCHANGED <<config, vault, recovery, printed, commands, changes, keys, promised, failed, broken, unfinished, restored, overlap>>
  BY DEF Refuse, files, history
<1>2. /\ ~overlap /\ ~broken /\ ~(restored /\ failed) => Agree \/ Unsettled(proc[p])
      /\ ~overlap /\ ~broken /\ ~failed => Mirrored
  BY Known
<1>3. ~Unsettled(proc[p])
  BY DEF Unsettled
<1>4. /\ config \in Files /\ vault \in Data \cup {None} /\ recovery \in Data \cup {None}
      /\ lock \in Terminals \cup {None} /\ printed \subseteq Keys /\ promised \in [Aliases -> 0..MaxChanges]
      /\ failed \in BOOLEAN /\ broken \in BOOLEAN /\ unfinished \in BOOLEAN /\ restored \in BOOLEAN /\ overlap \in BOOLEAN
      /\ commands \in Nat /\ changes \in 0..MaxChanges /\ keys \in 0..MaxKeys
      /\ ServersKept
  BY Typed
<1>5. TypeOK'
  BY <1>1, <1>4 DEF TypeOK, Files, Return
<1>6. ServersKept' /\ (Agree => Agree') /\ (Mirrored => Mirrored')
  BY <1>1, <1>4 DEF ServersKept, Agree, Mirrored
<1> QED
  BY <1>1, <1>2, <1>3, <1>4, <1>5, <1>6, Returns

-----------------------------------------------------------------------------
(* The steps that fail. *)

\* Whatever a step that fails leaves behind is one of the files as it was, or as it was
\* to be.
LEMMA FailuresIInv ==
    ASSUME IInv, NEW p \in Terminals,
           \/ SaveConfigFails(p) \/ SaveRecoveryFails(p) \/ Rollback(p) \/ ArchiveFails(p)
           \/ InitVaultFails(p) \/ InitConfigFails(p)
           \/ (SaveVaultFails(p) /\ proc[p].op \notin ServerOps)
    PROVE  IInv'
<1>1. proc[p].pc # "idle"
  BY DEF SaveConfigFails, SaveRecoveryFails, Rollback, ArchiveFails, InitVaultFails, InitConfigFails, SaveVaultFails, At
<1>2. /\ proc[p] \in ProcState /\ PhaseOf(proc[p])
      /\ ~overlap => FreshOf(proc[p])
      /\ ~overlap /\ ~broken /\ ~(restored /\ failed) => /\ Agree \/ Unsettled(proc[p])
                                                       /\ Settles(proc[p])
  BY <1>1, Known
<1>3. /\ config \in Files /\ vault \in Data \cup {None} /\ recovery \in Data \cup {None}
      /\ ServersKept
  BY Typed
<1>4. CASE SaveConfigFails(p)
  <2>1. proc[p].pc = "saveConfig" /\ UNCHANGED <<vault, recovery>>
    BY <1>4 DEF SaveConfigFails, At
  <2>2. CASE UNCHANGED config /\ Fail(p, FALSE)
    <3>1. ~overlap /\ ~broken /\ ~restored => Agree'
      BY <1>2, <2>1, <2>2 DEF Unsettled, Agree, Fail
    <3> QED
      BY <1>1, <1>3, <2>1, <2>2, <3>1, Fails
  <2>3. CASE config' = proc[p].cfg /\ Fail(p, TRUE)
    <3>1. config' \in Files
      BY <1>2, <2>3 DEF ProcState
    <3> QED
      BY <1>1, <1>3, <2>1, <2>3, <3>1, Fails
  <2> QED
    BY <1>4, <2>2, <2>3 DEF SaveConfigFails
<1>5. CASE SaveRecoveryFails(p)
  <2>1. proc[p].pc = "saveRecovery" /\ recovery' \in {recovery, proc[p].data} /\ Fail(p, FALSE) /\ UNCHANGED <<config, vault>>
    BY <1>5 DEF SaveRecoveryFails, At
  <2>2. recovery' \in Data \cup {None}
    BY <1>2, <1>3, <2>1 DEF ProcState
  <2>3. ~overlap /\ ~broken /\ ~restored => Agree'
    BY <1>2, <2>1 DEF Unsettled, Agree, Fail
  <2> QED
    BY <1>1, <1>3, <2>1, <2>2, <2>3, Fails
<1>6. CASE Rollback(p)
  <2>1. proc[p].pc = "rollback" /\ UNCHANGED <<vault, recovery>> /\ proc[p].before \in Files /\ proc[p].before # None
    BY <1>2, <1>6 DEF Rollback, At, PhaseOf, ProcState
  <2>2. CASE config' = proc[p].before /\ Fail(p, FALSE)
    <3>1. ~overlap /\ ~broken /\ ~restored => Agree'
      BY <1>2, <2>1, <2>2 DEF Settles, FreshOf, Agree
    <3> QED
      BY <1>1, <1>3, <2>1, <2>2, <3>1, Fails
  <2>3. CASE UNCHANGED config /\ Fail(p, TRUE)
    BY <1>1, <1>3, <2>1, <2>3, Fails
  <2> QED
    BY <1>6, <2>2, <2>3 DEF Rollback
<1>7. CASE ArchiveFails(p)
  <2>1. /\ proc[p].pc \in {"archiveConfig", "archiveVault", "archiveRecovery"} /\ proc[p].op = "reset"
        /\ UNCHANGED <<config, vault, recovery>>
    BY <1>2, <1>7 DEF ArchiveFails, files, PhaseOf
  <2>2. CASE proc[p].pc = "archiveConfig"
    <3>1. Fail(p, FALSE)
      BY <1>7, <2>2 DEF ArchiveFails
    <3>2. ~overlap /\ ~broken /\ ~restored => Agree'
      BY <1>2, <2>1, <2>2, <3>1 DEF Unsettled, Agree, Fail
    <3> QED
      BY <1>1, <1>3, <2>1, <3>1, <3>2, Fails
  <2>3. CASE proc[p].pc # "archiveConfig"
    <3>1. Abandon(p)
      BY <1>7, <2>3 DEF ArchiveFails
    <3>2. ~overlap => Agree'
      BY <1>2, <2>1, <2>3, <3>1 DEF FreshOf, Agree, Abandon
    <3> QED
      BY <1>1, <1>3, <2>1, <3>1, <3>2, Abandons
  <2> QED
    BY <2>2, <2>3
<1>8. CASE InitVaultFails(p)
  <2>1. proc[p].pc = "initVault" /\ UNCHANGED <<config, recovery>> /\ proc[p].op \in {"init", "reset"}
    BY <1>2, <1>8 DEF InitVaultFails, At, PhaseOf
  <2>2. ~overlap => config = None
    BY <1>2, <2>1 DEF FreshOf
  <2>3. CASE UNCHANGED vault /\ proc[p].op = "init" /\ Fail(p, FALSE)
    <3>1. ~overlap /\ ~broken /\ ~restored => Agree'
      BY <1>2, <2>1, <2>3 DEF Unsettled, Agree, Fail
    <3> QED
      BY <1>1, <1>3, <2>1, <2>3, <3>1, Fails
  <2>4. CASE UNCHANGED vault /\ Abandon(p)
    <3>1. ~overlap => Agree'
      BY <2>1, <2>2, <2>4 DEF Agree, Abandon
    <3> QED
      BY <1>1, <1>3, <2>1, <2>4, <3>1, Abandons
  <2>5. CASE vault = None /\ vault' = EmptyData /\ Abandon(p)
    <3>1. ~overlap => Agree'
      BY <2>1, <2>2, <2>5 DEF Agree, Abandon
    <3>2. ~overlap /\ ~restored => \A a \in Aliases : promised[a] = 0
      BY <1>3, <2>5 DEF ServersKept
    <3> QED
      BY <1>1, <1>3, <2>1, <2>5, <3>1, <3>2, Abandons, DataType
  <2> QED
    BY <1>8, <2>1, <2>3, <2>4, <2>5 DEF InitVaultFails
<1>9. CASE InitConfigFails(p)
  <2>1. proc[p].pc = "initConfig" /\ UNCHANGED recovery
    BY <1>9 DEF InitConfigFails, At
  <2>2. CASE /\ proc[p].op = "init"
             /\ vault' \in {vault, None} /\ config' \in {config, {}, None}
             /\ Fail(p, vault' # None \/ config' # None)
    <3> DEFINE twice == vault' # None \/ config' # None
    <3>1. ~twice => Agree'
      BY DEF Agree
    <3>2. ~overlap /\ ~restored' /\ vault' # vault => \A a \in Aliases : promised[a] = 0
      <4>1. ~restored' => ~restored
        BY <2>2 DEF Fail
      <4>2. ~overlap => vault = EmptyData
        BY <1>2, <2>1, <2>2 DEF FreshOf
      <4> QED
        BY <1>3, <4>1, <4>2, DataType DEF ServersKept
    <3>3. config' \in Files /\ vault' \in Data \cup {None} /\ twice \in BOOLEAN /\ Fail(p, twice)
      BY <1>3, <2>2 DEF Files
    <3> HIDE DEF twice
    <3> QED
      BY <1>1, <1>3, <2>1, <3>1, <3>2, <3>3, Fails
  <2>3. CASE /\ proc[p].op = "reset"
             /\ UNCHANGED vault /\ config' \in {config, {}}
             /\ Abandon(p)
    <3>1. ~overlap => config = None /\ vault = EmptyData
      BY <1>2, <2>1, <2>3 DEF FreshOf
    <3>2. ~overlap => Agree'
      BY <2>3, <3>1, DataType DEF Agree, Abandon
    <3>3. config' \in Files
      BY <1>3, <2>3 DEF Files
    <3> QED
      BY <1>1, <1>3, <2>1, <2>3, <3>2, <3>3, Abandons
  <2> QED
    BY <1>9, <2>2, <2>3 DEF InitConfigFails
<1>10. CASE SaveVaultFails(p) /\ proc[p].op \notin ServerOps
  <2>1. proc[p].pc = "saveVault" /\ UNCHANGED <<config, recovery>> /\ proc[p].op \in {"enable", "restore"}
    BY <1>2, <1>10 DEF SaveVaultFails, At, PhaseOf
  <2>2. CASE UNCHANGED vault /\ Fail(p, FALSE)
    <3>1. ~overlap /\ ~broken /\ ~restored => Agree'
      BY <1>2, <1>10, <2>1, <2>2 DEF Unsettled, Agree, Fail
    <3> QED
      BY <1>1, <1>3, <2>1, <2>2, <3>1, Fails
  <2>3. CASE vault' = proc[p].data /\ Fail(p, TRUE)
    <3>1. vault' \in Data \cup {None} /\ proc[p].data # None
      BY <1>2, <2>1, <2>3 DEF ProcState, PhaseOf
    <3>2. ~overlap /\ ~restored' => vault # None /\ vault'.servers = vault.servers /\ ~restored
      BY <1>2, <2>1, <2>3 DEF FreshOf, Fail
    <3>3. ~overlap /\ ~restored' =>
             \A a \in Aliases : promised[a] # 0 =>
                  vault' # None /\ a \in Aliased(vault') /\ vault'.servers[a] = promised[a]
      BY <1>3, <2>3, <3>1, <3>2 DEF ServersKept, Aliased
    <3> QED
      BY <1>1, <1>3, <2>1, <2>3, <3>1, <3>3, Fails
  <2> QED
    BY <1>10, <2>2, <2>3 DEF SaveVaultFails
<1> QED
  BY <1>4, <1>5, <1>6, <1>7, <1>8, <1>9, <1>10

-----------------------------------------------------------------------------
(* The steps of withUnlockedVault. *)

\* The configuration and the vault are read, and the new contents computed.
LEMMA LoadIInv ==
    ASSUME IInv, NEW p \in Terminals, LoadConfig(p) \/ LoadVault(p)
    PROVE  IInv'
<1>1. proc[p].pc \in {"loadConfig", "loadVault"}
  BY DEF LoadConfig, LoadVault, At
<1>2. /\ proc[p] \in ProcState /\ PhaseOf(proc[p]) /\ proc[p].op \in Locked \cup Unlocked
      /\ ~overlap => FreshOf(proc[p])
      /\ ~overlap /\ ~broken /\ ~(restored /\ failed) => Agree \/ Unsettled(proc[p])
      /\ ~overlap /\ ~broken /\ ~failed => Mirrored
  BY <1>1, Known
<1>3. ~Unsettled(proc[p])
  BY <1>1 DEF Unsettled
<1>4. /\ config \in Files /\ vault \in Data \cup {None} /\ recovery \in Data \cup {None}
      /\ lock \in Terminals \cup {None} /\ printed \subseteq Keys /\ promised \in [Aliases -> 0..MaxChanges]
      /\ failed \in BOOLEAN /\ broken \in BOOLEAN /\ unfinished \in BOOLEAN /\ restored \in BOOLEAN /\ overlap \in BOOLEAN
      /\ commands \in Nat /\ changes \in 0..MaxChanges /\ keys \in 0..MaxKeys
      /\ ServersKept
  BY Typed
<1>5. CASE Refuse(p)
  BY <1>1, <1>5, Refuses
<1>6. CASE LoadConfig(p) /\ ~Refuse(p)
  <2> DEFINE pc == IF proc[p].op = "config" THEN "saveConfig" ELSE "loadVault"
             s == [proc[p] EXCEPT !.pc = pc, !.before = config, !.cfg = config]
  <2>1. /\ config # None /\ proc' = [proc EXCEPT ![p].pc = pc, ![p].before = config, ![p].cfg = config]
        /\ UNCHANGED <<config, vault, recovery, lock, printed, commands, changes, keys, promised, failed, broken, unfinished, restored, overlap>>
        /\ proc[p].op \in ServerOps \cup {"config"}
    <3>1. At(p, "loadConfig")
      BY <1>6 DEF LoadConfig
    <3>2. proc[p].op \in ServerOps \cup {"config"}
      BY <1>2, <3>1 DEF PhaseOf, At
    <3> QED
      BY <1>6, <3>2 DEF LoadConfig, files, history
  <2>2. proc' = [proc EXCEPT ![p] = s] /\ s \in ProcState
    BY <1>2, <1>4, <2>1 DEF IInv, Types, ProcState
  <2>r. PICK r \in ProcState : r = s
    BY <2>2
  <2>3. /\ proc' = [proc EXCEPT ![p] = r] /\ r.pc = pc /\ r.op = proc[p].op /\ r.alias = proc[p].alias /\ r.before = config /\ r.cfg = config
        /\ r.data = proc[p].data
    BY <1>2, <1>4, <2>2, <2>r DEF ProcState
  <2>4. proc[p].op # "config" => proc[p].alias \in Aliases
    BY <1>1, <1>2, <2>1 DEF PhaseOf
  <2> HIDE DEF s
  <2>5. PhaseOf(r) /\ ~Unsettled(r)
    BY <2>1, <2>3, <2>4 DEF PhaseOf, Unsettled, ServerOps
  <2>6. FreshOf(r)' /\ Settles(r)'
    BY <2>1, <2>3 DEF FreshOf, Settles, ServerOps
  <2>7. TypeOK' /\ ServersKept' /\ (Agree => Agree') /\ (Mirrored => Mirrored')
    BY <1>4, <2>1 DEF TypeOK, Files, ServersKept, Agree, Mirrored
  <2> QED
    BY <1>1, <1>2, <1>3, <1>4, <2>1, <2>3, <2>5, <2>6, <2>7, Moves
<1>7. CASE LoadVault(p) /\ ~Refuse(p)
  <2> DEFINE op == proc[p].op
             a == proc[p].alias
             servers == Changed(op, a, vault.servers, changes + 1)
             kept == IF op = "remove" THEN proc[p].cfg \ {a} ELSE proc[p].cfg \cup {a}
             cfg == NormalizedConfig(kept, servers)
             new == [vault EXCEPT !.servers = servers]
             s == [proc[p] EXCEPT !.pc = "saveConfig", !.cfg = cfg, !.data = new]
  <2>1. /\ At(p, "loadVault") /\ op \in ServerOps /\ vault # None /\ changes < MaxChanges
        /\ proc' = [proc EXCEPT ![p].pc = "saveConfig", ![p].cfg = cfg, ![p].data = new]
        /\ changes' = changes + 1 /\ promised' = [promised EXCEPT ![a] = 0]
        /\ UNCHANGED <<config, vault, recovery, lock, printed, commands, keys, failed, broken, unfinished, restored, overlap>>
    BY <1>7 DEF LoadVault, files
  <2>2. a \in Aliases /\ vault \in Data /\ Aliased(vault) \in SUBSET Aliases /\ vault.servers \in Servers
    BY <1>2, <1>4, <2>1, DataType DEF At, PhaseOf, Aliased
  <2>3. /\ DOMAIN servers = IF op = "remove" THEN Aliased(vault) \ {a} ELSE Aliased(vault) \cup {a}
        /\ \A x \in DOMAIN servers : servers[x] = IF op # "remove" /\ x = a THEN changes + 1 ELSE vault.servers[x]
    BY DEF Changed, Aliased
  <2>4. servers \in Servers
    <3>1. changes + 1 \in 1..MaxChanges
      BY <1>4, <2>1, StorageAssumption
    <3>2. \A x \in Aliased(vault) : vault.servers[x] \in 1..MaxChanges
      BY <2>2, ServersType DEF Aliased
    <3>3. servers \in [DOMAIN servers -> 1..MaxChanges]
      <4>1. servers = [x \in DOMAIN servers |-> servers[x]]
        BY DEF Changed
      <4> QED
        BY <2>3, <3>1, <3>2, <4>1
    <3> QED
      BY <2>2, <2>3, <3>3, ServersType
  <2> HIDE DEF servers
  <2>5. /\ new \in Data /\ new.servers = servers /\ new.key = vault.key /\ Aliased(new) = DOMAIN servers
        /\ new # None
    BY <2>2, <2>4, DataType DEF Aliased
  <2>6. cfg = kept \cup DOMAIN servers
    BY DEF NormalizedConfig
  <2> HIDE DEF new
  <2>7. cfg \in SUBSET Aliases
    <3>1. proc[p].cfg \in SUBSET Aliases
      BY <1>2, <2>1 DEF At, PhaseOf, ProcState, Files
    <3> QED
      BY <2>2, <2>3, <2>6, <3>1
  <2> HIDE DEF cfg
  <2>8. proc' = [proc EXCEPT ![p] = s] /\ s \in ProcState
    BY <1>2, <2>1, <2>5, <2>7 DEF IInv, Types, ProcState, Files
  <2>r. PICK r \in ProcState : r = s
    BY <2>8
  <2>9. /\ proc' = [proc EXCEPT ![p] = r] /\ r.pc = "saveConfig" /\ r.op = op /\ r.alias = a /\ r.before = proc[p].before /\ r.cfg = cfg
        /\ r.data = new
    BY <1>2, <2>8, <2>r DEF ProcState
  <2> HIDE DEF s
  <2>10. PhaseOf(r) /\ ~Unsettled(r)
    <3>1. cfg # None
      BY <2>7, DataType
    <3>2. op # "remove" => a \in Aliased(new)
      BY <2>3, <2>5
    <3>3. proc[p].before # None
      BY <1>2, <2>1 DEF At, PhaseOf
    <3> QED
      BY <2>1, <2>2, <2>5, <2>9, <3>1, <3>2, <3>3 DEF PhaseOf, Unsettled, ServerOps
  <2>11. ~overlap => FreshOf(r)'
    <3> SUFFICES ASSUME ~overlap PROVE FreshOf(r)'
      OBVIOUS
    <3>1. proc[p].before = config /\ config # None
      BY <1>2, <2>1 DEF FreshOf, At
    <3>2. Amends(r)'
      BY <1>4, <2>1, <2>2, <2>3, <2>5, <2>9 DEF Amends
    <3> QED
      BY <2>1, <2>9, <3>1, <3>2 DEF FreshOf, ServerOps
  <2>12. ~overlap /\ ~broken' /\ ~(restored' /\ failed') => Agree' /\ Settles(r)'
    <3> SUFFICES ASSUME ~overlap, ~broken, ~(restored /\ failed) PROVE Agree' /\ Settles(r)'
      BY <2>1
    <3>1. Agree
      BY <1>2, <1>3
    <3>2. proc[p].cfg = Aliased(vault)
      BY <1>2, <2>1, <3>1 DEF FreshOf, At, Agree
    <3>3. cfg = Aliased(new)
      BY <2>3, <2>5, <2>6, <3>2
    <3> QED
      BY <2>1, <2>9, <3>1, <3>3 DEF Agree, Settles
  <2>13. ServersKept' /\ (Mirrored => Mirrored')
    BY <1>4, <2>1 DEF ServersKept, Mirrored
  <2>14. TypeOK' /\ changes' \in 0..MaxChanges /\ commands' \in Nat /\ keys' \in 0..MaxKeys
    <3>1. changes' \in 0..MaxChanges /\ 0 \in 0..MaxChanges
      BY <1>4, <2>1, StorageAssumption
    <3>2. promised' \in [Aliases -> 0..MaxChanges]
      BY <1>4, <2>1, <3>1
    <3> QED
      BY <1>4, <2>1, <3>1, <3>2 DEF TypeOK, Files
  <2> QED
    BY <1>1, <1>2, <2>1, <2>9, <2>10, <2>11, <2>12, <2>13, <2>14, Moves
<1> QED
  BY <1>5, <1>6, <1>7

\* The command goes on to another step and keeps its locals.
LEMMA WentTo ==
    ASSUME IInv, NEW p \in Terminals, NEW pc \in {"saveVault", "saveRecovery", "rollback", "archiveVault",
                                                  "archiveRecovery", "initVault", "initConfig"}, Goto(p, pc)
    PROVE  \E r \in ProcState :
              /\ proc' = [proc EXCEPT ![p] = r] /\ r.pc = pc
              /\ r.op = proc[p].op /\ r.alias = proc[p].alias /\ r.before = proc[p].before /\ r.cfg = proc[p].cfg
              /\ r.data = proc[p].data
<1> DEFINE r == [proc[p] EXCEPT !.pc = pc]
<1>1. proc[p] \in ProcState
  BY DEF IInv, Types
<1>2. /\ r \in ProcState /\ r.pc = pc
      /\ r.op = proc[p].op /\ r.alias = proc[p].alias /\ r.before = proc[p].before /\ r.cfg = proc[p].cfg
      /\ r.data = proc[p].data
  BY <1>1 DEF ProcState
<1>3. proc' = [proc EXCEPT ![p] = r]
  BY DEF Goto
<1> HIDE DEF r
<1> QED
  BY <1>2, <1>3

\* The configuration is written.
LEMMA SaveConfigIInv ==
    ASSUME IInv, NEW p \in Terminals, SaveConfig(p)
    PROVE  IInv'
<1>1. /\ proc[p].pc = "saveConfig" /\ config' = proc[p].cfg
      /\ UNCHANGED <<vault, recovery, printed, commands, changes, keys, promised, failed, broken, unfinished, restored, overlap>>
  BY DEF SaveConfig, At, history
<1>2. /\ proc[p] \in ProcState /\ PhaseOf(proc[p])
      /\ ~overlap => FreshOf(proc[p])
      /\ ~overlap /\ ~broken /\ ~(restored /\ failed) => (Agree \/ Unsettled(proc[p])) /\ Settles(proc[p])
      /\ ~overlap /\ ~broken /\ ~failed => Mirrored
  BY <1>1, Known
<1>3. ~Unsettled(proc[p])
  BY <1>1 DEF Unsettled
<1>4. /\ config \in Files /\ vault \in Data \cup {None} /\ recovery \in Data \cup {None}
      /\ lock \in Terminals \cup {None} /\ printed \subseteq Keys /\ promised \in [Aliases -> 0..MaxChanges]
      /\ failed \in BOOLEAN /\ broken \in BOOLEAN /\ unfinished \in BOOLEAN /\ restored \in BOOLEAN /\ overlap \in BOOLEAN
      /\ commands \in Nat /\ changes \in 0..MaxChanges /\ keys \in 0..MaxKeys
      /\ ServersKept
  BY Typed
<1>5. proc[p].cfg \in Files /\ proc[p].cfg # None
  BY <1>1, <1>2 DEF ProcState, PhaseOf
<1>6. ServersKept' /\ (Mirrored => Mirrored')
  BY <1>1, <1>4 DEF ServersKept, Mirrored
<1>7. CASE proc[p].op = "config"
  <2>1. Return(p)
    BY <1>7 DEF SaveConfig
  <2>2. ~overlap => config' = config
    BY <1>1, <1>2, <1>7 DEF FreshOf
  <2>3. TypeOK'
    BY <1>1, <1>4, <1>5, <2>1 DEF TypeOK, Files, Return
  <2>4. ~overlap /\ ~broken' /\ ~(restored' /\ failed') => Agree'
    BY <1>1, <1>2, <1>3, <2>2 DEF Agree
  <2> QED
    BY <1>1, <1>2, <1>4, <1>6, <2>1, <2>3, <2>4, Returns
<1>8. CASE proc[p].op # "config"
  <2>1. Goto(p, "saveVault") /\ lock' = lock /\ proc[p].op \in ServerOps
    BY <1>1, <1>2, <1>8 DEF SaveConfig, PhaseOf
  <2>2. PICK r \in ProcState :
              /\ proc' = [proc EXCEPT ![p] = r] /\ r.pc = "saveVault"
              /\ r.op = proc[p].op /\ r.alias = proc[p].alias /\ r.before = proc[p].before /\ r.cfg = proc[p].cfg
              /\ r.data = proc[p].data
    BY <2>1, WentTo
  <2>3. PhaseOf(r) /\ Unsettled(r)
    BY <1>1, <1>2, <2>1, <2>2 DEF PhaseOf, Unsettled, ServerOps
  <2>4. ~overlap => FreshOf(r)'
    <3> SUFFICES ASSUME ~overlap PROVE FreshOf(r)'
      OBVIOUS
    <3>1. proc[p].before = config /\ config # None /\ Amends(proc[p])
      BY <1>1, <1>2, <2>1 DEF FreshOf
    <3>2. Amends(r)'
      BY <1>1, <2>2, <3>1 DEF Amends
    <3> QED
      BY <1>1, <2>1, <2>2, <3>1, <3>2 DEF FreshOf, ServerOps
  <2>5. ~overlap /\ ~broken' /\ ~(restored' /\ failed') => Settles(r)'
    <3> SUFFICES ASSUME ~overlap, ~broken, ~(restored /\ failed) PROVE Settles(r)'
      BY <1>1
    <3>1. Agree /\ proc[p].cfg = Aliased(proc[p].data)
      BY <1>1, <1>2, <1>3, <2>1 DEF Settles
    <3>2. proc[p].before = Aliased(vault)
      BY <1>1, <1>2, <2>1, <3>1 DEF FreshOf, Agree
    <3> QED
      BY <1>1, <2>1, <2>2, <3>1, <3>2 DEF Settles
  <2>6. TypeOK'
    BY <1>1, <1>4, <1>5, <2>1 DEF TypeOK, Files
  <2> QED
    BY <1>1, <1>2, <1>4, <1>6, <2>1, <2>2, <2>3, <2>4, <2>5, <2>6, Moves
<1> QED
  BY <1>7, <1>8

\* The servers a server command or a restore saves keep what was promised.
LEMMA SavedKeep ==
    ASSUME IInv, NEW p \in Terminals, proc[p].pc = "saveVault", ~overlap,
           \/ proc[p].op \in ServerOps \cup {"enable"}
           \/ proc[p].op = "restore" /\ ~failed /\ ~broken,
           ~(restored /\ (failed \/ broken))
    PROVE  /\ \A a \in Aliases : promised[a] # 0 =>
                  a \in Aliased(proc[p].data) /\ proc[p].data.servers[a] = promised[a]
           /\ proc[p].op \notin ServerOps => vault # None /\ proc[p].data.servers = vault.servers
<1>1. /\ PhaseOf(proc[p]) /\ FreshOf(proc[p])
      /\ ~broken /\ ~failed => Mirrored
  BY Known
<1>2. \A a \in Aliases : promised[a] # 0 => vault # None /\ a \in Aliased(vault) /\ vault.servers[a] = promised[a]
  BY DEF IInv, ServersKept
<1>3. CASE proc[p].op \in ServerOps
  BY <1>1, <1>2, <1>3 DEF FreshOf, Amends
<1>4. CASE proc[p].op = "enable"
  BY <1>1, <1>2, <1>4 DEF FreshOf, Aliased, ServerOps
<1>5. CASE proc[p].op = "restore" /\ ~failed /\ ~broken
  BY <1>1, <1>2, <1>5 DEF FreshOf, Mirrored, Aliased, ServerOps
<1> QED
  BY <1>3, <1>4, <1>5

\* What the user is told has a type, and is what the vault holds.
LEMMA ToldKeeps ==
    ASSUME IInv, NEW p \in Terminals, proc[p].pc \in {"saveVault", "saveRecovery"}
    PROVE  /\ Told(p) \in [Aliases -> 0..MaxChanges]
           /\ \A a \in Aliases : Told(p)[a] # promised[a] =>
                 a \in Aliased(proc[p].data) /\ proc[p].data.servers[a] = Told(p)[a]
<1>1. proc[p] \in ProcState /\ PhaseOf(proc[p])
  BY Known
<1>2. proc[p].op \in {"add", "edit"} => proc[p].data \in Data /\ proc[p].alias \in Aliased(proc[p].data)
  BY <1>1, DataType DEF ProcState, PhaseOf, ServerOps
<1>3. \A d \in Data : \A a \in Aliased(d) : d.servers[a] \in 0..MaxChanges
  BY DataType, ServersType, StorageAssumption DEF Aliased
<1>4. promised \in [Aliases -> 0..MaxChanges]
  BY Typed
<1> QED
  BY <1>2, <1>3, <1>4 DEF Told

\* The vault is written, and the recovery vault follows or the command succeeds.
LEMMA SaveVaultIInv ==
    ASSUME IInv, NEW p \in Terminals, SaveVault(p)
    PROVE  IInv'
<1>1. proc[p].pc = "saveVault" /\ vault' = proc[p].data /\ UNCHANGED <<config, recovery, unfinished>>
  BY DEF SaveVault, At, Success, history
<1>2. /\ proc[p] \in ProcState /\ PhaseOf(proc[p])
      /\ ~overlap => FreshOf(proc[p])
      /\ ~overlap /\ ~broken /\ ~(restored /\ failed) => (Agree \/ Unsettled(proc[p])) /\ Settles(proc[p])
      /\ ~overlap /\ ~broken /\ ~failed => Mirrored
  BY <1>1, Known
<1>3. /\ config \in Files /\ vault \in Data \cup {None} /\ recovery \in Data \cup {None}
      /\ lock \in Terminals \cup {None} /\ printed \subseteq Keys /\ promised \in [Aliases -> 0..MaxChanges]
      /\ failed \in BOOLEAN /\ broken \in BOOLEAN /\ unfinished \in BOOLEAN /\ restored \in BOOLEAN /\ overlap \in BOOLEAN
      /\ commands \in Nat /\ changes \in 0..MaxChanges /\ keys \in 0..MaxKeys
      /\ ServersKept
  BY Typed
<1>4. proc[p].data \in Data /\ proc[p].data # None /\ proc[p].op \in ServerOps \cup {"enable", "restore"}
  BY <1>1, <1>2, DataType DEF ProcState, PhaseOf
<1>5. ~overlap /\ ~broken /\ ~(restored /\ failed) /\ ~(proc[p].op = "restore" /\ failed) => Agree'
  <2> SUFFICES ASSUME ~overlap, ~broken, ~(restored /\ failed), ~(proc[p].op = "restore" /\ failed) PROVE Agree'
    OBVIOUS
  <2>1. CASE proc[p].op \in ServerOps
    <3>1. config = Aliased(proc[p].data) /\ config # None
      BY <1>1, <1>2, <2>1, <1>4, <1>3, DataType DEF FreshOf, Settles
    <3> QED
      BY <1>1, <1>4, <3>1 DEF Agree
  <2>2. CASE proc[p].op \notin ServerOps
    <3>1. vault # None /\ proc[p].data.servers = vault.servers
      BY <1>1, <1>4, <2>2, SavedKeep
    <3>2. Agree
      BY <1>1, <1>2, <2>2 DEF Unsettled
    <3> QED
      BY <1>1, <1>4, <3>1, <3>2 DEF Agree, Aliased
  <2> QED
    BY <2>1, <2>2
<1>6. CASE proc[p].op # "restore" /\ proc[p].data.key # None
  <2>1. Goto(p, "saveRecovery") /\ UNCHANGED <<lock, printed, commands, changes, keys, promised, failed, broken, unfinished, restored, overlap>>
    BY <1>6 DEF SaveVault, history
  <2>2. PICK r \in ProcState :
              /\ proc' = [proc EXCEPT ![p] = r] /\ r.pc = "saveRecovery"
              /\ r.op = proc[p].op /\ r.alias = proc[p].alias /\ r.before = proc[p].before /\ r.cfg = proc[p].cfg
              /\ r.data = proc[p].data
    BY <2>1, WentTo
  <2>3. PhaseOf(r)
    BY <1>1, <1>2, <1>4, <1>6, <2>2 DEF PhaseOf, ServerOps
  <2>4. FreshOf(r)' /\ Settles(r)'
    BY <1>1, <1>6, <2>2 DEF FreshOf, Settles
  <2>5. ServersKept'
    BY <1>1, <1>4, <1>6, <2>1, SavedKeep DEF ServersKept
  <2>6. TypeOK'
    BY <1>1, <1>3, <1>4, <2>1 DEF TypeOK, Files
  <2> QED
    BY <1>1, <1>3, <1>5, <1>6, <2>1, <2>2, <2>3, <2>4, <2>5, <2>6, Moves
<1>7. CASE ~(proc[p].op # "restore" /\ proc[p].data.key # None)
  <2>1. /\ Return(p) /\ promised' = Told(p) /\ restored' = (restored \/ proc[p].op = "restore")
        /\ printed' = IF proc[p].op = "enable" THEN printed \cup {proc[p].data.key} ELSE printed
        /\ UNCHANGED <<commands, changes, keys, failed, broken, unfinished, overlap>>
    BY <1>7 DEF SaveVault, Success
  <2>2. proc[p].op # "enable"
    BY <1>1, <1>2, <1>7 DEF PhaseOf
  <2>3. TypeOK'
    BY <1>1, <1>3, <1>4, <2>1, <2>2, ToldKeeps DEF TypeOK, Files, Return
  <2>4. ServersKept'
    <3> SUFFICES ASSUME ~overlap, ~(restored' /\ (failed \/ broken)), NEW a \in Aliases, promised'[a] # 0
                 PROVE  vault' # None /\ a \in Aliased(vault') /\ vault'.servers[a] = promised'[a]
      BY <2>1 DEF ServersKept
    <3>1. \A x \in Aliases : promised[x] # 0 => x \in Aliased(proc[p].data) /\ proc[p].data.servers[x] = promised[x]
      BY <1>1, <1>4, <2>1, SavedKeep
    <3> QED
      BY <1>1, <1>4, <2>1, <3>1, ToldKeeps
  <2>5. ~overlap /\ ~broken' /\ ~failed' => Mirrored'
    <3> SUFFICES ASSUME ~overlap, ~broken, ~failed, recovery # None
                 PROVE  vault' # None /\ vault'.key # None /\ recovery.servers = vault'.servers
      BY <1>1, <2>1 DEF Mirrored
    <3>1. vault # None /\ vault.key # None /\ recovery.servers = vault.servers
      BY <1>2 DEF Mirrored
    <3>2. CASE proc[p].op \in ServerOps
      BY <1>1, <1>2, <1>7, <3>1, <3>2 DEF FreshOf, Amends, ServerOps
    <3>3. CASE proc[p].op = "restore"
      <4>1. proc[p].data = recovery
        BY <1>1, <1>2, <3>3 DEF FreshOf
      <4>2. proc[p].data.key # None
        BY <1>1, <1>2, <3>3 DEF PhaseOf
      <4> QED
        BY <1>1, <1>4, <4>1, <4>2
    <3> QED
      BY <1>4, <2>2, <3>2, <3>3
  <2> QED
    BY <1>1, <1>3, <1>5, <2>1, <2>3, <2>4, <2>5, Returns
<1> QED
  BY <1>6, <1>7

\* The save of the vault by a server command fails, and the configuration will be put
\* back.
LEMMA SaveVaultFailsIInv ==
    ASSUME IInv, NEW p \in Terminals, SaveVaultFails(p), proc[p].op \in ServerOps
    PROVE  IInv'
<1>1. /\ proc[p].pc = "saveVault" /\ UNCHANGED <<config, recovery>> /\ Goto(p, "rollback")
      /\ UNCHANGED <<lock, printed, commands, changes, keys, promised, failed, unfinished, restored, overlap>>
      /\ \/ vault' = vault /\ broken' = broken
         \/ vault' = proc[p].data /\ broken' = TRUE
  BY DEF SaveVaultFails, At, history
<1>2. /\ proc[p] \in ProcState /\ PhaseOf(proc[p])
      /\ ~overlap => FreshOf(proc[p])
      /\ ~overlap /\ ~broken /\ ~(restored /\ failed) => Settles(proc[p])
      /\ ~overlap /\ ~broken /\ ~failed => Mirrored
  BY <1>1, Known
<1>3. /\ config \in Files /\ vault \in Data \cup {None} /\ recovery \in Data \cup {None}
      /\ lock \in Terminals \cup {None} /\ printed \subseteq Keys /\ promised \in [Aliases -> 0..MaxChanges]
      /\ failed \in BOOLEAN /\ broken \in BOOLEAN /\ unfinished \in BOOLEAN /\ restored \in BOOLEAN /\ overlap \in BOOLEAN
      /\ commands \in Nat /\ changes \in 0..MaxChanges /\ keys \in 0..MaxKeys
      /\ ServersKept
  BY Typed
<1>4. proc[p].data \in Data /\ proc[p].data # None
  BY <1>1, <1>2, DataType DEF ProcState, PhaseOf
<1>5. PICK r \in ProcState :
            /\ proc' = [proc EXCEPT ![p] = r] /\ r.pc = "rollback"
            /\ r.op = proc[p].op /\ r.alias = proc[p].alias /\ r.before = proc[p].before /\ r.cfg = proc[p].cfg
            /\ r.data = proc[p].data
  BY <1>1, WentTo
<1>6. /\ ~overlap => /\ proc[p].before # None /\ vault # None
                     /\ ~broken /\ ~(restored /\ failed) => proc[p].before = Aliased(vault)
  BY <1>1, <1>2 DEF FreshOf, Settles, Amends
<1>7. proc[p].before # None
  BY <1>1, <1>2 DEF PhaseOf, ServerOps
<1>8. PhaseOf(r) /\ Unsettled(r)
  BY <1>1, <1>2, <1>5, <1>7 DEF PhaseOf, Unsettled, ServerOps
<1>9. ~overlap => FreshOf(r)'
  BY <1>1, <1>4, <1>5, <1>6 DEF FreshOf, ServerOps
<1>10. ~overlap /\ ~broken' /\ ~(restored' /\ failed') => Settles(r)'
  BY <1>1, <1>5, <1>6 DEF Settles
<1>11. ~overlap /\ ~broken' /\ ~failed' => Mirrored'
  BY <1>1, <1>2 DEF Mirrored
<1>12. ServersKept'
  <2>1. CASE vault' = vault /\ broken' = broken
    BY <1>1, <1>3, <2>1 DEF ServersKept
  <2>2. CASE vault' = proc[p].data /\ broken' = TRUE
    BY <1>1, <1>4, <2>2, SavedKeep DEF ServersKept
  <2> QED
    BY <1>1, <2>1, <2>2
<1>13. TypeOK'
  BY <1>1, <1>3, <1>4 DEF TypeOK, Files
<1> QED
  BY <1>1, <1>3, <1>5, <1>8, <1>9, <1>10, <1>11, <1>12, <1>13, Moves

\* The recovery vault is written and the command succeeds.
LEMMA SaveRecoveryIInv ==
    ASSUME IInv, NEW p \in Terminals, SaveRecovery(p)
    PROVE  IInv'
<1>1. /\ proc[p].pc = "saveRecovery" /\ recovery' = proc[p].data /\ UNCHANGED <<config, vault>>
      /\ Return(p) /\ promised' = Told(p) /\ restored' = (restored \/ proc[p].op = "restore")
      /\ printed' = IF proc[p].op = "enable" THEN printed \cup {proc[p].data.key} ELSE printed
      /\ UNCHANGED <<commands, changes, keys, failed, broken, unfinished, overlap>>
  BY DEF SaveRecovery, At, Success
<1>2. /\ proc[p] \in ProcState /\ PhaseOf(proc[p])
      /\ ~overlap => FreshOf(proc[p])
      /\ ~overlap /\ ~broken /\ ~(restored /\ failed) => Agree \/ Unsettled(proc[p])
  BY <1>1, Known
<1>3. /\ config \in Files /\ vault \in Data \cup {None} /\ recovery \in Data \cup {None}
      /\ lock \in Terminals \cup {None} /\ printed \subseteq Keys /\ promised \in [Aliases -> 0..MaxChanges]
      /\ failed \in BOOLEAN /\ broken \in BOOLEAN /\ unfinished \in BOOLEAN /\ restored \in BOOLEAN /\ overlap \in BOOLEAN
      /\ commands \in Nat /\ changes \in 0..MaxChanges /\ keys \in 0..MaxKeys
      /\ ServersKept
  BY Typed
<1>4. proc[p].data \in Data /\ proc[p].data # None /\ proc[p].op # "restore" /\ ~Unsettled(proc[p])
      /\ (proc[p].op = "enable" => proc[p].data.key \in Keys)
  BY <1>1, <1>2, DataType DEF ProcState, PhaseOf, Unsettled, ServerOps
<1>5. TypeOK'
  BY <1>1, <1>3, <1>4, ToldKeeps DEF TypeOK, Files, Return
<1>6. ~overlap => vault = proc[p].data /\ proc[p].data.key # None
  BY <1>1, <1>2 DEF FreshOf
<1>7. ServersKept'
  <2> SUFFICES ASSUME ~overlap, ~(restored /\ (failed \/ broken)), NEW a \in Aliases, promised'[a] # 0
               PROVE  vault # None /\ a \in Aliased(vault) /\ vault.servers[a] = promised'[a]
    BY <1>1, <1>4 DEF ServersKept
  <2> QED
    BY <1>1, <1>3, <1>4, <1>6, ToldKeeps DEF ServersKept
<1>8. /\ ~overlap /\ ~broken' /\ ~(restored' /\ failed') => Agree'
      /\ ~overlap /\ ~broken' /\ ~failed' => Mirrored'
  BY <1>1, <1>2, <1>4, <1>6 DEF Agree, Mirrored
<1> QED
  BY <1>1, <1>3, <1>5, <1>7, <1>8, Returns

-----------------------------------------------------------------------------
(* Recovery, reset and init. *)

\* recovery enable reads the vault; recovery restore opens the recovery vault.
LEMMA RecoveryLoadIInv ==
    ASSUME IInv, NEW p \in Terminals, EnableLoad(p) \/ RestoreLoad(p)
    PROVE  IInv'
<1>1. proc[p].pc = "loadVault"
  BY DEF EnableLoad, RestoreLoad, At
<1>2. /\ proc[p] \in ProcState /\ PhaseOf(proc[p])
      /\ ~overlap => FreshOf(proc[p])
      /\ ~overlap /\ ~broken /\ ~(restored /\ failed) => Agree \/ Unsettled(proc[p])
      /\ ~overlap /\ ~broken /\ ~failed => Mirrored
  BY <1>1, Known
<1>3. ~Unsettled(proc[p])
  BY <1>1 DEF Unsettled
<1>4. /\ config \in Files /\ vault \in Data \cup {None} /\ recovery \in Data \cup {None}
      /\ lock \in Terminals \cup {None} /\ printed \subseteq Keys /\ promised \in [Aliases -> 0..MaxChanges]
      /\ failed \in BOOLEAN /\ broken \in BOOLEAN /\ unfinished \in BOOLEAN /\ restored \in BOOLEAN /\ overlap \in BOOLEAN
      /\ commands \in Nat /\ changes \in 0..MaxChanges /\ keys \in 0..MaxKeys
      /\ ServersKept
  BY Typed
<1>5. CASE Refuse(p)
  BY <1>1, <1>5, Refuses
<1>6. CASE /\ vault # None /\ vault.key # None
           /\ printed' = printed \cup {vault.key}
           /\ Return(p)
           /\ UNCHANGED <<files, history>>
  <2>1. UNCHANGED <<config, vault, recovery, commands, changes, keys, promised, failed, broken, unfinished, restored, overlap>>
    BY <1>6 DEF files, history
  <2>2. vault.key \in Keys
    BY <1>4, <1>6, DataType
  <2>3. TypeOK'
    BY <1>4, <1>6, <2>1, <2>2 DEF TypeOK, Files, Return
  <2>4. ServersKept' /\ (Agree => Agree') /\ (Mirrored => Mirrored')
    BY <1>4, <2>1 DEF ServersKept, Agree, Mirrored
  <2> QED
    BY <1>1, <1>2, <1>3, <1>4, <1>6, <2>1, <2>3, <2>4, Returns
<1>7. ASSUME NEW d \in Data,
             proc' = [proc EXCEPT ![p].pc = "saveVault", ![p].data = d],
             d.key # None,
             keys' \in 0..MaxKeys,
             UNCHANGED <<config, vault, recovery, lock, printed, commands, changes, promised, failed, broken, unfinished, restored, overlap>>,
             \/ proc[p].op = "enable" /\ vault # None /\ vault.key = None /\ d.servers = vault.servers
             \/ proc[p].op = "restore" /\ recovery # None /\ d = recovery
      PROVE  IInv'
  <2> DEFINE s == [proc[p] EXCEPT !.pc = "saveVault", !.data = d]
  <2>1. proc' = [proc EXCEPT ![p] = s] /\ s \in ProcState
    BY <1>2, <1>7 DEF IInv, Types, ProcState
  <2>2. PICK r \in ProcState : r = s
    BY <2>1
  <2>3. proc' = [proc EXCEPT ![p] = r] /\ r.pc = "saveVault" /\ r.op = proc[p].op /\ r.data = d
    BY <1>2, <2>1, <2>2 DEF ProcState
  <2> HIDE DEF s
  <2>4. PhaseOf(r) /\ ~Unsettled(r)
    BY <1>7, <2>3, DataType DEF PhaseOf, Unsettled, ServerOps
  <2>5. FreshOf(r)' /\ Settles(r)'
    BY <1>7, <2>3 DEF FreshOf, Settles, ServerOps
  <2>6. TypeOK' /\ ServersKept' /\ (Agree => Agree') /\ (Mirrored => Mirrored')
    BY <1>4, <1>7 DEF TypeOK, Files, ServersKept, Agree, Mirrored
  <2> QED
    BY <1>1, <1>2, <1>3, <1>4, <1>7, <2>3, <2>4, <2>5, <2>6, Moves
<1>8. CASE /\ proc[p].op = "enable" /\ vault # None /\ vault.key = None
           /\ keys < MaxKeys
           /\ keys' = keys + 1
           /\ proc' = [proc EXCEPT ![p].pc = "saveVault", ![p].data = [vault EXCEPT !.key = keys + 1]]
           /\ UNCHANGED <<files, lock, printed, commands, changes, promised, failed, broken, unfinished, restored, overlap>>
  <2> DEFINE d == [vault EXCEPT !.key = keys + 1]
  <2>1. keys + 1 \in Keys /\ keys' \in 0..MaxKeys
    BY <1>4, <1>8, StorageAssumption DEF Keys
  <2>2. d \in Data /\ d.key = keys + 1 /\ d.servers = vault.servers
    BY <1>4, <1>8, <2>1, DataType
  <2>3. d.key # None
    BY <2>1, <2>2, DataType
  <2>4. proc' = [proc EXCEPT ![p].pc = "saveVault", ![p].data = d]
    BY <1>8
  <2>5. UNCHANGED <<config, vault, recovery, lock, printed, commands, changes, promised, failed, broken, unfinished, restored, overlap>>
    BY <1>8 DEF files
  <2> HIDE DEF d
  <2> QED
    BY <1>7, <1>8, <2>1, <2>2, <2>3, <2>4, <2>5
<1>9. CASE /\ proc[p].op = "restore" /\ recovery # None /\ recovery.key \in printed
           /\ proc' = [proc EXCEPT ![p].pc = "saveVault", ![p].data = recovery]
           /\ UNCHANGED <<files, lock, printed, history>>
  <2>1. recovery \in Data /\ recovery.key # None
    BY <1>4, <1>9, DataType
  <2>2. UNCHANGED <<config, vault, recovery, lock, printed, commands, changes, keys, promised, failed, broken, unfinished, restored, overlap>>
    BY <1>9 DEF files, history
  <2> QED
    BY <1>4, <1>7, <1>9, <2>1, <2>2
<1> QED
  BY <1>5, <1>6, <1>8, <1>9 DEF EnableLoad, RestoreLoad

\* A file is put into the archive.
LEMMA ArchiveIInv ==
    ASSUME IInv, NEW p \in Terminals, Archive(p)
    PROVE  IInv'
<1>1. /\ proc[p].pc \in {"archiveConfig", "archiveVault", "archiveRecovery"}
      /\ config' = IF proc[p].pc = "archiveConfig" THEN None ELSE config
      /\ vault' = IF proc[p].pc = "archiveVault" THEN None ELSE vault
      /\ recovery' = IF proc[p].pc = "archiveRecovery" THEN None ELSE recovery
      /\ promised' = [a \in Aliases |-> 0]
      /\ Goto(p, NextArchive(proc[p].pc))
      /\ UNCHANGED <<lock, printed, commands, changes, keys, failed, broken, unfinished, restored, overlap>>
  BY DEF Archive
<1>2. /\ proc[p] \in ProcState /\ PhaseOf(proc[p])
      /\ ~overlap => FreshOf(proc[p])
      /\ ~overlap /\ ~broken /\ ~failed => Mirrored \/ proc[p].pc = "archiveRecovery"
  BY <1>1, Known
<1>3. /\ config \in Files /\ vault \in Data \cup {None} /\ recovery \in Data \cup {None}
      /\ lock \in Terminals \cup {None} /\ printed \subseteq Keys
      /\ failed \in BOOLEAN /\ broken \in BOOLEAN /\ unfinished \in BOOLEAN /\ restored \in BOOLEAN /\ overlap \in BOOLEAN
      /\ commands \in Nat /\ changes \in 0..MaxChanges /\ keys \in 0..MaxKeys
  BY Typed
<1>4. /\ proc[p].op = "reset"
      /\ NextArchive(proc[p].pc) \in {"archiveVault", "archiveRecovery", "initVault"}
      /\ NextArchive(proc[p].pc) = "archiveVault" <=> proc[p].pc = "archiveConfig"
      /\ NextArchive(proc[p].pc) = "archiveRecovery" <=> proc[p].pc = "archiveVault"
      /\ NextArchive(proc[p].pc) = "initVault" <=> proc[p].pc = "archiveRecovery"
  BY <1>1, <1>2 DEF NextArchive, PhaseOf
<1>5. PICK r \in ProcState :
            /\ proc' = [proc EXCEPT ![p] = r] /\ r.pc = NextArchive(proc[p].pc)
            /\ r.op = proc[p].op /\ r.alias = proc[p].alias /\ r.before = proc[p].before /\ r.cfg = proc[p].cfg
            /\ r.data = proc[p].data
  BY <1>1, <1>4, WentTo
<1>6. PhaseOf(r)
  BY <1>4, <1>5 DEF PhaseOf, ServerOps
<1>7. ~overlap => FreshOf(r)'
  <2> SUFFICES ASSUME ~overlap PROVE FreshOf(r)'
    OBVIOUS
  <2>1. /\ proc[p].pc \in {"archiveVault", "archiveRecovery"} => config = None
        /\ proc[p].pc = "archiveRecovery" => vault = None
    BY <1>2, <1>4 DEF FreshOf
  <2>2. /\ config' = None /\ Unpromised'
        /\ r.pc \in {"archiveRecovery", "initVault"} => vault' = None
        /\ r.pc = "initVault" => recovery' = None
    BY <1>1, <1>4, <1>5, <2>1 DEF Unpromised
  <2> QED
    BY <1>4, <1>5, <2>2 DEF FreshOf, ServerOps
<1>8. ~overlap => Agree' \/ Unsettled(r)
  <2>1. ~overlap /\ r.pc = "initVault" => config' = None /\ vault' = None
    BY <1>4, <1>5, <1>7 DEF FreshOf
  <2> QED
    BY <1>4, <1>5, <2>1 DEF Agree, Unsettled
<1>9. Settles(r)'
  BY <1>4, <1>5 DEF Settles, ServerOps
<1>10. ~overlap /\ ~broken' /\ ~failed' => Mirrored' \/ r.pc = "archiveRecovery"
  BY <1>1, <1>2, <1>4, <1>5 DEF Mirrored
<1>11. ServersKept'
  BY <1>1 DEF ServersKept
<1>12. TypeOK'
  <2>1. promised' \in [Aliases -> 0..MaxChanges]
    BY <1>1, StorageAssumption
  <2> QED
    BY <1>1, <1>3, <2>1 DEF TypeOK, Files
<1> QED
  BY <1>1, <1>3, <1>5, <1>6, <1>7, <1>8, <1>9, <1>10, <1>11, <1>12, Moves

\* The empty vault is published.
LEMMA InitVaultIInv ==
    ASSUME IInv, NEW p \in Terminals, InitVault(p)
    PROVE  IInv'
<1>1. /\ proc[p].pc = "initVault" /\ vault = None /\ vault' = EmptyData /\ Goto(p, "initConfig")
      /\ UNCHANGED <<config, recovery, lock, printed, commands, changes, keys, promised, failed, broken, unfinished, restored, overlap>>
  BY DEF InitVault, At, history
<1>2. /\ proc[p] \in ProcState /\ PhaseOf(proc[p])
      /\ ~overlap => FreshOf(proc[p])
      /\ ~overlap /\ ~broken /\ ~failed => Mirrored
  BY <1>1, Known
<1>3. /\ config \in Files /\ vault \in Data \cup {None} /\ recovery \in Data \cup {None}
      /\ lock \in Terminals \cup {None} /\ printed \subseteq Keys /\ promised \in [Aliases -> 0..MaxChanges]
      /\ failed \in BOOLEAN /\ broken \in BOOLEAN /\ unfinished \in BOOLEAN /\ restored \in BOOLEAN /\ overlap \in BOOLEAN
      /\ commands \in Nat /\ changes \in 0..MaxChanges /\ keys \in 0..MaxKeys
      /\ ServersKept
  BY Typed
<1>4. PICK r \in ProcState :
            /\ proc' = [proc EXCEPT ![p] = r] /\ r.pc = "initConfig"
            /\ r.op = proc[p].op /\ r.alias = proc[p].alias /\ r.before = proc[p].before /\ r.cfg = proc[p].cfg
            /\ r.data = proc[p].data
  BY <1>1, WentTo
<1>5. proc[p].op \in {"init", "reset"}
  BY <1>1, <1>2 DEF PhaseOf
<1>6. PhaseOf(r) /\ Unsettled(r)
  BY <1>4, <1>5 DEF PhaseOf, Unsettled, ServerOps
<1>7. ~overlap => FreshOf(r)'
  BY <1>1, <1>2, <1>4, <1>5 DEF FreshOf, ServerOps, Unpromised
<1>8. Settles(r)'
  BY <1>4, <1>5 DEF Settles, ServerOps
<1>9. ~overlap /\ ~broken' /\ ~failed' => Mirrored'
  BY <1>1, <1>2 DEF Mirrored
<1>10. ServersKept'
  BY <1>1, <1>3 DEF ServersKept
<1>11. TypeOK'
  BY <1>1, <1>3, DataType DEF TypeOK, Files
<1> QED
  BY <1>1, <1>3, <1>4, <1>6, <1>7, <1>8, <1>9, <1>10, <1>11, Moves

\* The empty configuration is written, and init or reset ends.
LEMMA InitConfigIInv ==
    ASSUME IInv, NEW p \in Terminals, InitConfig(p)
    PROVE  IInv'
<1>1. /\ proc[p].pc = "initConfig" /\ config' = {} /\ Return(p)
      /\ failed' = (failed /\ proc[p].op = "init")
      /\ broken' = (broken /\ proc[p].op = "init")
      /\ restored' = (restored /\ proc[p].op = "init") /\ unfinished' = FALSE
      /\ UNCHANGED <<vault, recovery, printed, commands, changes, keys, promised, overlap>>
  BY DEF InitConfig, At
<1>2. /\ proc[p] \in ProcState /\ PhaseOf(proc[p])
      /\ ~overlap => FreshOf(proc[p])
      /\ ~overlap /\ ~broken /\ ~failed => Mirrored
  BY <1>1, Known
<1>3. /\ config \in Files /\ vault \in Data \cup {None} /\ recovery \in Data \cup {None}
      /\ lock \in Terminals \cup {None} /\ printed \subseteq Keys /\ promised \in [Aliases -> 0..MaxChanges]
      /\ failed \in BOOLEAN /\ broken \in BOOLEAN /\ unfinished \in BOOLEAN /\ restored \in BOOLEAN /\ overlap \in BOOLEAN
      /\ commands \in Nat /\ changes \in 0..MaxChanges /\ keys \in 0..MaxKeys
      /\ ServersKept
  BY Typed
<1>4. /\ proc[p].op \in {"init", "reset"}
      /\ ~overlap => vault = EmptyData
      /\ ~overlap /\ proc[p].op = "reset" => recovery = None /\ Unpromised
  BY <1>1, <1>2 DEF PhaseOf, FreshOf
<1>5. ~overlap => Agree'
  <2>1. {} # None /\ EmptyData # None /\ Aliased(EmptyData) = {}
    BY DataType
  <2> QED
    BY <1>1, <1>4, <2>1 DEF Agree
<1>6. ~overlap /\ ~broken' /\ ~failed' => Mirrored'
  BY <1>1, <1>2, <1>4 DEF Mirrored
<1>7. ServersKept'
  BY <1>1, <1>3, <1>4 DEF ServersKept, Unpromised
<1>8. TypeOK'
  BY <1>1, <1>3 DEF TypeOK, Files, Return
<1> QED
  BY <1>1, <1>3, <1>5, <1>6, <1>7, <1>8, Returns

\* A command that is killed leaves the files as they are.
LEMMA KillIInv ==
    ASSUME IInv, NEW p \in Terminals, Kill(p)
    PROVE  IInv'
<1>1. /\ proc[p].pc # "idle" /\ Return(p) /\ broken' = TRUE
      /\ UNCHANGED <<config, vault, recovery, printed, commands, changes, keys, promised, failed, unfinished, restored, overlap>>
  BY DEF Kill, Busy, files
<1>2. /\ config \in Files /\ vault \in Data \cup {None} /\ recovery \in Data \cup {None}
      /\ lock \in Terminals \cup {None} /\ printed \subseteq Keys /\ promised \in [Aliases -> 0..MaxChanges]
      /\ failed \in BOOLEAN /\ broken \in BOOLEAN /\ unfinished \in BOOLEAN /\ restored \in BOOLEAN /\ overlap \in BOOLEAN
      /\ commands \in Nat /\ changes \in 0..MaxChanges /\ keys \in 0..MaxKeys
      /\ ServersKept
  BY Typed
<1>3. TypeOK' /\ ServersKept'
  BY <1>1, <1>2 DEF TypeOK, Files, Return, ServersKept
<1> QED
  BY <1>1, <1>2, <1>3, Returns

\* A command starts.  Without an overlap it is the only one: two commands that both take
\* the lock do not run together.
LEMMA BeginIInv ==
    ASSUME IInv, NEW p \in Terminals, NEW op \in Locked \cup Unlocked, NEW a \in Aliases \cup {None},
           op \in ServerOps => a \in Aliases, Begin(p, op, a)
    PROVE  IInv'
<1>1. /\ proc[p].pc = "idle" /\ (op \in Locked => lock = None)
      /\ (op = "init" => config = None /\ vault = None)
      /\ lock' = IF op \in Locked THEN p ELSE lock
      /\ proc' = [proc EXCEPT ![p] = [Idle EXCEPT !.pc = FirstStep(op), !.op = op, !.alias = a]]
      /\ commands' = commands + 1
      /\ overlap' = (overlap \/ \E q \in Busy : {op, proc[q].op} \cap Unlocked # {})
      /\ UNCHANGED <<config, vault, recovery, printed, changes, keys, promised, failed, broken, unfinished, restored>>
  BY DEF Begin, At, files
<1>2. /\ config \in Files /\ vault \in Data \cup {None} /\ recovery \in Data \cup {None}
      /\ lock \in Terminals \cup {None} /\ printed \subseteq Keys /\ promised \in [Aliases -> 0..MaxChanges]
      /\ failed \in BOOLEAN /\ broken \in BOOLEAN /\ unfinished \in BOOLEAN /\ restored \in BOOLEAN /\ overlap \in BOOLEAN
      /\ commands \in Nat /\ changes \in 0..MaxChanges /\ keys \in 0..MaxKeys
      /\ ServersKept
  BY Typed
<1>3. /\ op \in ServerOps \cup {"config"} => FirstStep(op) = "loadConfig"
      /\ op = "init" => FirstStep(op) = "initVault"
      /\ op \in {"enable", "restore"} => FirstStep(op) = "loadVault"
      /\ op = "reset" => FirstStep(op) = "archiveConfig"
  BY DEF FirstStep, ServerOps
<1>4. op \in ServerOps \cup {"config", "init", "enable", "restore", "reset"}
  BY DEF Locked, Unlocked
<1>5. PICK r \in ProcState : /\ r = [Idle EXCEPT !.pc = FirstStep(op), !.op = op, !.alias = a]
                             /\ r.pc = FirstStep(op) /\ r.op = op /\ r.alias = a
  <2> DEFINE s == [Idle EXCEPT !.pc = FirstStep(op), !.op = op, !.alias = a]
  <2>1. FirstStep(op) \in {"loadConfig", "loadVault", "archiveConfig", "initVault"}
    BY <1>3, <1>4
  <2>2. s \in ProcState /\ s.pc = FirstStep(op) /\ s.op = op /\ s.alias = a
    BY <2>1 DEF Idle, ProcState, Files
  <2> QED
    BY <2>2
<1>6. /\ proc' \in [Terminals -> ProcState] /\ proc'[p] = r
      /\ \A q \in Terminals : q # p => proc'[q] = proc[q]
  BY <1>1, <1>5 DEF IInv, Types
<1>7. /\ PhaseOf(r) /\ Settles(r)' /\ ~Unsettled(r) /\ r.pc \notin {"saveRecovery", "archiveRecovery"}
  BY <1>3, <1>4, <1>5 DEF PhaseOf, Settles, Unsettled, ServerOps
<1>8. FreshOf(r)'
  BY <1>1, <1>3, <1>4, <1>5 DEF FreshOf, ServerOps
<1>9. ~overlap' => ~overlap /\ \A q \in Terminals : proc[q].pc = "idle"
  <2> SUFFICES ASSUME ~overlap', NEW q \in Terminals, proc[q].pc # "idle" PROVE FALSE
    BY <1>1
  <2>1. q \in Busy /\ proc[q].op \in Locked \cup Unlocked
    BY Known DEF Busy
  <2>2. op \in Locked /\ proc[q].op \in Locked
    BY <1>1, <2>1
  <2>3. lock = q /\ lock = None
    BY <1>1, <2>1, <2>2 DEF IInv, SoleInv
  <2> QED
    BY <2>3, DataType
<1>10. TypeOK'
  <2>1. overlap' \in BOOLEAN /\ lock' \in Terminals \cup {None}
    BY <1>1, <1>2
  <2> QED
    BY <1>1, <1>2, <2>1 DEF TypeOK, Files
<1>11. Types'
  <2>1. commands' \in Nat
    BY <1>1, <1>2
  <2> QED
    BY <1>1, <1>2, <1>6, <1>7, <1>10, <2>1 DEF IInv, Types
<1>12. SoleInv'
  <2>1. ASSUME NEW q \in Busy', proc'[q].op \in Locked PROVE lock' = q
    <3>1. CASE q = p
      BY <1>1, <1>5, <1>6, <2>1, <3>1
    <3>2. CASE q # p
      <4>1. q \in Busy /\ proc[q].op \in Locked /\ q \in Terminals
        BY <1>6, <2>1, <3>2 DEF Busy
      <4>2. lock = q /\ lock # None
        BY <4>1, DataType DEF IInv, SoleInv
      <4> QED
        BY <1>1, <4>2
    <3> QED
      BY <3>1, <3>2
  <2>2. ~overlap' => \A q \in Busy' : q = p
    BY <1>6, <1>9 DEF Busy
  <2> QED
    BY <2>1, <2>2 DEF SoleInv
<1>13. FreshInv'
  BY <1>6, <1>8, <1>9, IdleAsksNothing DEF FreshInv
<1>14. AgreeInv'
  <2> SUFFICES ASSUME ~overlap', ~broken', ~(restored' /\ failed')
               PROVE  Agree' /\ \A q \in Terminals : Settles(proc[q])'
    BY DEF AgreeInv
  <2>1. Agree
    BY <1>1, <1>9, IdleAsksNothing DEF IInv, AgreeInv
  <2>2. \A q \in Terminals : Settles(proc[q])'
    BY <1>6, <1>7, <1>9, IdleAsksNothing
  <2> QED
    BY <1>1, <2>1, <2>2 DEF Agree
<1>15. MirrorInv'
  BY <1>1, <1>9 DEF IInv, MirrorInv, Mirrored
<1>16. ServersKept'
  BY <1>1, <1>2, <1>9 DEF ServersKept
<1> QED
  BY <1>11, <1>12, <1>13, <1>14, <1>15, <1>16 DEF IInv

-----------------------------------------------------------------------------
(* The theorems. *)

\* Before the first command there is no file and no promise.
LEMMA InitIInv == Init => IInv
<1> SUFFICES ASSUME Init PROVE IInv
  OBVIOUS
<1>1. /\ config = None /\ vault = None /\ recovery = None /\ lock = None /\ printed = {}
      /\ commands = 0 /\ changes = 0 /\ keys = 0 /\ promised = [a \in Aliases |-> 0]
      /\ failed = FALSE /\ broken = FALSE /\ unfinished = FALSE /\ restored = FALSE /\ overlap = FALSE
      /\ proc = [p \in Terminals |-> Idle]
  BY DEF Init
<1>2. Idle \in ProcState /\ Idle.pc = "idle" /\ PhaseOf(Idle) /\ FreshOf(Idle) /\ Settles(Idle)
  BY DEF Idle, ProcState, Files, PhaseOf, FreshOf, Settles
<1>3. Types
  <2>1. promised \in [Aliases -> 0..MaxChanges] /\ changes \in 0..MaxChanges /\ keys \in 0..MaxKeys
    BY <1>1, StorageAssumption
  <2>2. proc \in [Terminals -> ProcState] /\ \A p \in Terminals : PhaseOf(proc[p])
    BY <1>1, <1>2
  <2> QED
    BY <1>1, <2>1, <2>2 DEF Types, TypeOK
<1> HIDE DEF Idle
<1>4. SoleInv /\ FreshInv
  BY <1>1, <1>2 DEF SoleInv, FreshInv, Busy
<1>5. AgreeInv /\ MirrorInv /\ ServersKept
  BY <1>1, <1>2 DEF AgreeInv, MirrorInv, ServersKept, Agree, Mirrored
<1> QED
  BY <1>3, <1>4, <1>5 DEF IInv

\* Every step of a command keeps the inductive invariant.
LEMMA StepIInv ==
    ASSUME IInv, NEW p \in Terminals, Step(p)
    PROVE  IInv'
BY FailuresIInv, LoadIInv, SaveConfigIInv, SaveVaultIInv, SaveVaultFailsIInv, SaveRecoveryIInv,
   RecoveryLoadIInv, ArchiveIInv, InitVaultIInv, InitConfigIInv DEF Step

\* The inductive invariant holds in every state the commands can reach.
THEOREM Invariance == Spec => []IInv
<1>1. IInv /\ [Next]_vars => IInv'
  <2> SUFFICES ASSUME IInv, [Next]_vars PROVE IInv'
    OBVIOUS
  <2>1. ASSUME NEW p \in Terminals, Step(p) PROVE IInv'
    BY <2>1, StepIInv
  <2>2. ASSUME NEW p \in Terminals, Kill(p) PROVE IInv'
    BY <2>2, KillIInv
  <2>3. ASSUME NEW p \in Terminals, NEW op \in ServerOps, NEW a \in Aliases, Begin(p, op, a) PROVE IInv'
    BY <2>3, BeginIInv DEF Locked
  <2>4. ASSUME NEW p \in Terminals, NEW op \in Unlocked \cup {"init"}, Begin(p, op, None) PROVE IInv'
    <3>1. op \in Locked \cup Unlocked /\ op \notin ServerOps
      BY DEF Locked, Unlocked, ServerOps
    <3> QED
      BY <2>4, <3>1, BeginIInv
  <2>5. CASE UNCHANGED vars
    BY <2>5 DEF vars, files, history, IInv, Types, TypeOK, SoleInv, Busy, FreshInv, FreshOf, Amends, Unpromised,
                AgreeInv, Agree, Settles, MirrorInv, Mirrored, ServersKept
  <2> QED
    BY <2>1, <2>2, <2>3, <2>4, <2>5 DEF Next
<1> QED
  BY <1>1, InitIInv, PTL DEF Spec

\* The files, the lock, the printed codes and the promises keep their types.
THEOREM TypeCorrect == Spec => []TypeOK
<1>1. IInv => TypeOK
  BY DEF IInv, Types
<1> QED
  BY <1>1, Invariance, PTL

\* saveConfigVerified, saveVaultVerified and the roll-back of withUnlockedVault: whenever
\* no command runs, config.yaml and vault.enc list the same servers, after any commands
\* one by one of which each failed at most once; a reset or an init that fails half-way
\* leaves at worst a vault without a configuration.
THEOREM FilesAgree == Spec => []AliasesAgree
<1>1. IInv => AliasesAgree
  <2> SUFFICES ASSUME IInv, Busy = {}, ~overlap, ~broken, ~(restored /\ failed) PROVE Agree
    BY DEF AliasesAgree, Quiet, Agree
  <2>1. \A p \in Terminals : proc[p].pc = "idle"
    BY DEF Busy
  <2>2. \A p \in Terminals : ~Unsettled(proc[p])
    BY <2>1 DEF Unsettled
  <2> QED
    BY <2>2 DEF IInv, AgreeInv
<1> QED
  BY <1>1, Invariance, PTL

\* What server add or server edit has reported stays in vault.enc, through failures and
\* kills at any step of the commands that follow.
THEOREM ServersAreKept == Spec => []ServersKept
<1>1. IInv => ServersKept
  BY DEF IInv
<1> QED
  BY <1>1, Invariance, PTL

=============================================================================
