----------------------------- MODULE OrcheRows ------------------------------
(***************************************************************************)
(* The rows ProcessVmStateTask writes for the orchestrator, every five     *)
(* seconds, from its copies of the VM list and of stateinfo[].             *)
(*                                                                         *)
(* Nova lists the VMs of every host, and a VM once for each of its         *)
(* addresses, so several HOST processes, and several rounds of one of      *)
(* them, write the row of one VM and one time.  A row is looked for,       *)
(* inserted, looked at and updated in four queries without a transaction.  *)
(* Each query is an action, and each may fail; the code goes on then.      *)
(*                                                                         *)
(* Here the passes of all HOSTs for one time are seen; rows of another     *)
(* time do not meet them.  The copies are inputs: any VM list, and any     *)
(* table with one entry per VM (OneEntryPerVM of VmStateTable).  Of a row  *)
(* only its VM and whose report it shows is kept.  The orchestrator's      *)
(* table is not part of the repository; it is taken to have no key.        *)
(***************************************************************************)
EXTENDS StateInfo, Sequences, FiniteSets

CONSTANTS
  Host,            \* HOST processes
  Ip,              \* addresses of VMs
  Id,              \* VMs of Nova, by their uuid
  Lists            \* VM lists: sequences of a uuid and an address; with
                   \*   cloud_mode 0 Nova is not asked and the list is empty

Item == [id : Id, ip : Ip \union {NoAddr}]

Tables == {t \in [Index -> Ip \union {NoAddr}] :
             \A i, j \in Index : t[i] = t[j] /\ i # j => t[i] = NoAddr}

\* A row with process_count 0 shows NoAddr.
\* The id a machine outside of Nova reports is taken to be its address.
Row == [id : Id \union Ip, shown : Ip \union {NoAddr}, by : Host]

ASSUME OrcheAssumption ==
  /\ NoAddr \notin Ip
  /\ Id \intersect Ip = {}
  /\ Lists \subseteq Seq(Item)

VARIABLES
  baremetal_mode,  \* HOST_BAREMETAL_MODE of each HOST
  rows,        \* the rows of this time
  pc,          \* sleep, count, insert, check, update, metal, done
  vstatus,     \* the copy of the VM list
  vminfo,      \* the copy of stateinfo[]: the address of each entry
  at,          \* i, the VM or the entry a pass has come to
  v_flag,      \* an entry of a VM in the list was met
  failed,      \* history: VMs a pass had a failed query for
  overwritten  \* history: VMs whose report was replaced by none

passes == <<baremetal_mode, vstatus, vminfo>>
rowsVars == <<rows, pc, passes, at, v_flag, failed, overwritten>>

RowsInit ==
  /\ baremetal_mode \in [Host -> {0, 1}]
  /\ rows = {}
  /\ pc = [h \in Host |-> "sleep"]
  /\ vstatus = [h \in Host |-> <<>>]
  /\ vminfo = [h \in Host |-> [i \in Index |-> NoAddr]]
  /\ at = [h \in Host |-> 1]
  /\ v_flag = [h \in Host |-> FALSE]
  /\ failed = [h \in Host |-> {}]
  /\ overwritten = {}

-----------------------------------------------------------------------------
Current(h) == vstatus[h][at[h]]
RowsOf(id) == {r \in rows : r.id = id}

\* The report that stateinfo[] has of an address: none, if no entry has it
\* or if it is 0, the address of an empty entry.
ShownOf(h, ip) == IF \E i \in Index : vminfo[h][i] = ip THEN ip ELSE NoAddr

NewRow(h) == [id |-> Current(h).id, shown |-> ShownOf(h, Current(h).ip), by |-> h]

\* Slip: the next VM is taken without a look for its row.
AdvanceInside(h) == at' = [at EXCEPT ![h] = @ + 1] /\ UNCHANGED pc

\* On to the next VM of the list.
Advance(h) ==
  /\ at' = [at EXCEPT ![h] = @ + 1]
  /\ pc' = [pc EXCEPT ![h] = "count"]

GoTo(h, where) == pc' = [pc EXCEPT ![h] = where] /\ UNCHANGED at

\* The time has come, and both copies are made.
Begin(h, list, table) ==
  /\ pc[h] = "sleep"
  /\ pc' = [pc EXCEPT ![h] = "count"]
  /\ vstatus' = [vstatus EXCEPT ![h] = list]
  /\ vminfo' = [vminfo EXCEPT ![h] = table]
  /\ UNCHANGED <<baremetal_mode, rows, at, v_flag, failed, overwritten>>

\* PQ_SelectCountVMStateInfo
Count(h) ==
  /\ pc[h] = "count" /\ at[h] <= Len(vstatus[h])
  /\ GoTo(h, IF RowsOf(Current(h).id) = {} THEN "insert" ELSE "check")
  /\ UNCHANGED <<rows, passes, v_flag, failed, overwritten>>

\* PQ_InsertVMStateInfo
Insert(h) ==
  /\ pc[h] = "insert"
  /\ rows' = rows \union {NewRow(h)}
  /\ Advance(h)
  /\ UNCHANGED <<passes, v_flag, failed, overwritten>>

\* Slip: whatever the row shows, it is updated.
CheckNothing(h) ==
  /\ pc[h] = "check"
  /\ GoTo(h, "update")
  /\ UNCHANGED <<rows, passes, v_flag, failed, overwritten>>

\* Slip: a row that shows nothing is left as it is.
CheckWithoutUpdate(h) ==
  /\ pc[h] = "check"
  /\ Advance(h)
  /\ UNCHANGED <<rows, passes, v_flag, failed, overwritten>>

\* PQ_CheckVMStateInfo reads process_count of the first row there is, which
\* may be any one if there are several.
Check(h) ==
  /\ pc[h] = "check"
  /\ \E r \in RowsOf(Current(h).id) :
       IF r.shown = NoAddr THEN GoTo(h, "update") ELSE Advance(h)
  /\ UNCHANGED <<rows, passes, v_flag, failed, overwritten>>

\* PQ_UpdateVMStateInfo changes all rows of the VM and the time.
Update(h) ==
  LET old == RowsOf(Current(h).id)
      lost == NewRow(h).shown = NoAddr /\ \E r \in old : r.shown # NoAddr IN
  /\ pc[h] = "update"
  /\ rows' = (rows \ old) \union {NewRow(h)}
  /\ overwritten' = IF lost THEN overwritten \union {Current(h).id} ELSE overwritten
  /\ Advance(h)
  /\ UNCHANGED <<passes, v_flag, failed>>

QueryFails(h) ==
  /\ pc[h] \in {"count", "insert", "check", "update"}
  /\ at[h] <= Len(vstatus[h])
  /\ failed' = [failed EXCEPT ![h] = @ \union {Current(h).id}]
  /\ Advance(h)
  /\ UNCHANGED <<rows, passes, v_flag, overwritten>>

\* The machines that Nova does not know come next.
BeginMetal(h) ==
  /\ pc[h] = "count" /\ at[h] > Len(vstatus[h])
  /\ pc' = [pc EXCEPT ![h] = "metal"]
  /\ at' = [at EXCEPT ![h] = 0]
  /\ UNCHANGED <<rows, passes, v_flag, failed, overwritten>>

Listed(h, ip) == \E k \in DOMAIN vstatus[h] : vstatus[h][k].ip = ip

\* An entry is skipped if it is empty or v_flag is set; the flag is set by
\* the entry of a VM in the list, and nothing resets it.
Metal(h) ==
  LET ip == vminfo[h][at[h]] IN
  /\ pc[h] = "metal" /\ at[h] \in Index
  /\ v_flag' = [v_flag EXCEPT ![h] = @ \/ (ip # NoAddr /\ Listed(h, ip))]
  /\ \/ /\ ip # NoAddr /\ ~v_flag'[h] /\ baremetal_mode[h] = 1
        /\ \/ rows' = rows \union {[id |-> ip, shown |-> ip, by |-> h]}
              /\ UNCHANGED failed
           \/ failed' = [failed EXCEPT ![h] = @ \union {ip}] /\ UNCHANGED rows
     \/ /\ ip = NoAddr \/ v_flag'[h] \/ baremetal_mode[h] = 0
        /\ UNCHANGED <<rows, failed>>
  /\ at' = [at EXCEPT ![h] = @ + 1]
  /\ UNCHANGED <<pc, passes, overwritten>>

End(h) ==
  /\ pc[h] = "metal" /\ at[h] \notin Index
  /\ GoTo(h, "done")
  /\ UNCHANGED <<rows, passes, v_flag, failed, overwritten>>

\* All passes of this time have ended; the rows of the next time are others.
NextTime ==
  /\ \A h \in Host : pc[h] = "done"
  /\ UNCHANGED baremetal_mode
  /\ rows' = {} /\ overwritten' = {}
  /\ pc' = [h \in Host |-> "sleep"]
  /\ vstatus' = [h \in Host |-> <<>>]
  /\ vminfo' = [h \in Host |-> [i \in Index |-> NoAddr]]
  /\ at' = [h \in Host |-> 1]
  /\ v_flag' = [h \in Host |-> FALSE]
  /\ failed' = [h \in Host |-> {}]

Pass(h) ==
  \/ \E list \in Lists, table \in Tables : Begin(h, list, table)
  \/ Count(h) \/ Insert(h) \/ Check(h) \/ Update(h) \/ QueryFails(h)
  \/ BeginMetal(h) \/ Metal(h) \/ End(h)

RowsNext == (\E h \in Host : Pass(h)) \/ NextTime

RowsSpec == RowsInit /\ [][RowsNext]_rowsVars

-----------------------------------------------------------------------------
(***************************************************************************)
(* Properties                                                              *)
(***************************************************************************)
\* Every variable has its type, and a query is made for a VM of the list.
RowsTypeOK ==
  /\ baremetal_mode \in [Host -> {0, 1}]
  /\ rows \subseteq Row
  /\ pc \in [Host -> {"sleep", "count", "insert", "check", "update", "metal", "done"}]
  /\ vstatus \in [Host -> Lists \union {<<>>}] /\ vminfo \in [Host -> Tables]
  /\ at \in [Host -> Nat] /\ v_flag \in [Host -> BOOLEAN]
  /\ failed \in [Host -> SUBSET (Id \union Ip)] /\ overwritten \subseteq Id
  /\ \A h \in Host : pc[h] \in {"insert", "check", "update"} => at[h] \in DOMAIN vstatus[h]

\* The four queries bring a report into the row of its VM, in whatever order
\* the HOSTs make them and under whichever of its addresses the VM reports,
\* unless one of the HOST's own queries failed or another pass replaced it.
ReportShown ==
  (\A h \in Host : pc[h] = "done") =>
    \A h \in Host : \A k \in DOMAIN vstatus[h] :
      LET id == vstatus[h][k].id IN
      ShownOf(h, vstatus[h][k].ip) # NoAddr /\ id \notin failed[h] \union overwritten =>
        \E r \in RowsOf(id) : r.shown # NoAddr

\* A HOST never takes back a report it has shown: PQ_CheckVMStateInfo keeps
\* the other addresses of a VM from overwriting it.  Only another HOST, which
\* checked the row before, may do so, and the same HOST if two of them
\* inserted the row at once and it looked at the wrong one.
TakesBack ==
  \E r \in rows :
    /\ r.shown # NoAddr /\ RowsOf(r.id) = {r}
    /\ pc[r.by] = "update" /\ \A h \in Host \ {r.by} : pc'[h] = pc[h]
    /\ \A q \in rows' : q.id = r.id => q.shown = NoAddr
KeepsOwnReports == [][~TakesBack]_rowsVars

\* "Insert Baremetal State": a machine that reports and is not in the VM list
\* gets its row.
MetalReported ==
  \A h \in Host : pc[h] = "done" /\ baremetal_mode[h] = 1 =>
    \A i \in Index :
      LET ip == vminfo[h][i] IN
      ip = NoAddr \/ Listed(h, ip) \/ ip \in failed[h] \/ RowsOf(ip) # {}
=============================================================================
