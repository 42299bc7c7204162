----------------------------- MODULE MountsTrue -----------------------------
(***************************************************************************)
(* Proof of what mount, umount, chroot, clean and fix-rpool-mountpoint     *)
(* promise, for any number of commands, faults and guests: they leave the  *)
(* running system, the inside of a backup and the session's own files      *)
(* alone (Unharmed), and a banner that says all is released is true        *)
(* (BannerTrue).                                                           *)
(*                                                                         *)
(* What is open hangs together: a mount needs its pool, a keystore's mount *)
(* its mapper, a mapper its zvol, a zvol its pool (Layers).  A command     *)
(* works where its kind may (Lanes), so no command that exports rpool runs *)
(* on the running system (Live); umount knows every pool it has still to   *)
(* export (Owed); the keystore's mount that a command takes away is the    *)
(* one it made or found by name (Visible); and the mountpoint is changed   *)
(* with rpool alone under the private altroot (Alone).                     *)
(***************************************************************************)
EXTENDS Mounts, SequenceTheorems, TLAPS

Items(s) == {s[i] : i \in 1..Len(s)}

(* What is open rests on something open, and what is being mounted on a    *)
(* pool that was imported.                                                 *)
Layers ==
  /\ mnt \cup zvols \subseteq {p \in Pools : pool[p] # "out"}
  /\ Stacked \ {"live"} \subseteq mapper
  /\ run.cmd \in {"mount", "local", "chroot"} /\ run.ending = "no" /\ run.pc # "import" =>
       pool[run.pool] # "out"
  /\ run.pc = "track boot" => pool["bpool"] # "out"

(* Which steps each command has; a banner is of a command that ended.      *)
Making == {"import", "track", "open", "ksmount", "key", "root", "leave"}
Unmounting == {"tree", "attach", "ksumount", "ksclose", "export", "elsewhere", "again",
               "judge"}

Lanes ==
  /\ run.cmd = "none" => run = Idle
  /\ run.cmd # "none" => said = ""
  /\ run.cmd = "mount" =>
       /\ run.pool = "backup" /\ ~run.ks /\ run.ending # "end"
       /\ IF run.ending = "no" THEN run.pc \in Making \cup {"ksumount", "ksclose"}
                               ELSE run.pc \in {"cleanup", "export"}
  /\ run.cmd \in {"local", "chroot"} =>
       /\ run.pool = "rpool"
       /\ IF run.ending = "no"
          THEN run.pc \in Making \cup {"track ks", "boot", "track boot", "last", "shell"}
          ELSE run.pc \in {"cleanup", "ksumount", "ksclose", "export"}
  /\ run.cmd \in {"umount", "umount local"} =>
       /\ run.pc \in Unmounting /\ run.ending = "no"
       /\ run.pool = IF run.cmd = "umount" THEN "backup" ELSE "rpool"
  /\ run.cmd = "clean" =>
       /\ run.pc \in {"clean trees", "clean ks", "clean close", "export", "elsewhere",
                      "again", "clean inhibit", "clean judge"}
       /\ run.ending = "no"
  /\ run.cmd = "fix" =>
       /\ run.pc \in {"inhibit", "import", "fix check", "fix off", "fix set",
                      "fix export", "fix restore"}
       /\ run.pool = "rpool" /\ run.ending = "no"

(* The running system's pools are nobody's to import or export, and only   *)
(* its own are imported without an altroot.                                *)
Live ==
  /\ running =>
       /\ RunningKept
       /\ run.cmd \in {"none", "mount", "umount", "clean"}
       /\ Items(run.pools) \cup run.stuck \subseteq
            {"backup"} \cup (IF ext4 THEN {"bpool"} ELSE {})
  /\ ~running =>
       /\ \A p \in Pools : pool[p] # "own"
       /\ "live" \notin Stacked

(* umount has exported what it does not list any more.                     *)
Owed ==
  run.cmd \in {"umount", "umount local"} /\ run.pc \notin {"tree", "attach"} =>
    /\ \A p \in InTree(run.pool) :
         pool[p] # "out" => p \in Items(run.pools) \cup run.stuck
    /\ run.pc \in {"elsewhere", "judge"} => run.pools = <<>>

(* What is visible at KEYSTORE_MOUNT when a command unmounts it.           *)
Visible ==
  /\ run.cmd \in {"mount", "local", "chroot"} =>
       /\ run.pc = "import" => pool[run.pool] = "out"
       /\ run.pc \in {"import", "track", "open", "ksmount"} => run.pool \notin Stacked
       /\ run.pc = "ksmount" => run.pool \in mapper
  /\ run.cmd = "mount" /\ run.pc \in {"key", "ksumount"} =>
       stack # <<>> /\ stack[Len(stack)] = "backup"
  /\ run.cmd = "clean" /\ run.pc \in {"clean trees", "clean ks"} /\ run.inv.ksm =>
       KsMounted

(* fix-rpool-mountpoint is alone with rpool.                               *)
Alone ==
  run.cmd = "fix" =>
    /\ run.pc \in {"import", "fix check", "fix off", "fix set"} => inhibit
    /\ run.pc \in {"fix check", "fix off", "fix set"} => pool["rpool"] = "alt"
    /\ run.pc \in {"fix off", "fix set"} => zvols = {} /\ rmp = "none"

MountsInv ==
  /\ TypeOK /\ Layers /\ Lanes /\ Live /\ Owed /\ Visible /\ Alone
  /\ BackupWhole /\ InsideTree /\ BannerTrue
-----------------------------------------------------------------------------
(* Sequences of pools and of mounts. *)

LEMMA ItemsIn ==
  ASSUME NEW T, NEW s \in Seq(T)
  PROVE  Items(s) \subseteq T /\ (s = <<>> <=> Items(s) = {})
<1>1. \A i \in 1..Len(s) : s[i] \in T
  OBVIOUS
<1>2. s # <<>> => 1 \in 1..Len(s)
  OBVIOUS
<1> QED
  BY <1>1, <1>2 DEF Items

LEMMA ItemsEmpty == Items(<<>>) = {}
BY DEF Items

LEMMA ItemsAppend ==
  ASSUME NEW T, NEW s \in Seq(T), NEW x \in T
  PROVE  /\ Append(s, x) \in Seq(T)
         /\ Items(Append(s, x)) = Items(s) \cup {x}
         /\ Append(s, x) # <<>> /\ Append(s, x)[Len(Append(s, x))] = x
<1>1. /\ Append(s, x) \in Seq(T) /\ Len(Append(s, x)) = Len(s) + 1
      /\ \A i \in 1..Len(s) : Append(s, x)[i] = s[i]
      /\ Append(s, x)[Len(s) + 1] = x
  BY AppendProperties
<1>2. Items(Append(s, x)) \subseteq Items(s) \cup {x}
  BY <1>1 DEF Items
<1>3. \A i \in 1..Len(s) : i \in 1..Len(Append(s, x))
  BY <1>1
<1>4. Len(s) + 1 \in 1..Len(Append(s, x))
  BY <1>1
<1>5. Items(s) \cup {x} \subseteq Items(Append(s, x))
  BY <1>1, <1>3, <1>4 DEF Items
<1> QED
  BY <1>1, <1>2, <1>4, <1>5

LEMMA ItemsTail ==
  ASSUME NEW T, NEW s \in Seq(T), s # <<>>
  PROVE  /\ Head(s) \in T /\ Tail(s) \in Seq(T)
         /\ Items(s) = {Head(s)} \cup Items(Tail(s))
<1>1. /\ Head(s) \in T /\ Tail(s) \in Seq(T) /\ Len(Tail(s)) = Len(s) - 1
      /\ \A i \in 1..Len(Tail(s)) : Tail(s)[i] = s[i + 1]
      /\ Head(s) = s[1] /\ Len(s) \in Nat \ {0}
  BY HeadTailProperties
<1>2. Items(s) \subseteq {Head(s)} \cup Items(Tail(s))
  <2> SUFFICES ASSUME NEW i \in 1..Len(s) PROVE s[i] \in {Head(s)} \cup Items(Tail(s))
    BY DEF Items
  <2>1. CASE i = 1
    BY <1>1, <2>1
  <2>2. CASE i # 1
    <3>1. i - 1 \in 1..Len(Tail(s)) /\ (i - 1) + 1 = i
      BY <1>1, <2>2
    <3>2. Tail(s)[i - 1] = s[i]
      BY <1>1, <3>1
    <3> QED
      BY <3>1, <3>2 DEF Items
  <2> QED
    BY <2>1, <2>2
<1>3. {Head(s)} \cup Items(Tail(s)) \subseteq Items(s)
  BY <1>1 DEF Items
<1> QED
  BY <1>1, <1>2, <1>3

Popped(s) == SubSeq(s, 1, Len(s) - 1)

LEMMA ItemsPopped ==
  ASSUME NEW T, NEW s \in Seq(T)
  PROVE  /\ Popped(s) \in Seq(T)
         /\ Items(Popped(s)) \subseteq Items(s)
         /\ \A x \in Items(s) : x # s[Len(s)] => x \in Items(Popped(s))
<1>1. Len(s) \in Nat
  OBVIOUS
<1>2. /\ Popped(s) \in Seq(T)
      /\ \A i \in 1..Len(Popped(s)) : i \in 1..(Len(s) - 1) /\ Popped(s)[i] = s[i]
      /\ \A i \in 1..(Len(s) - 1) : i \in 1..Len(Popped(s))
  <2> DEFINE n == Len(s) - 1
  <2>1. n \in Int /\ \A i \in 1..n : s[i] \in T
    BY <1>1
  <2>2. Popped(s) = SubSeq(s, 1, n)
    BY DEF Popped
  <2> HIDE DEF n
  <2>3. \A i \in 1..n : i \in 1..(n - 1 + 1) /\ 1 + i - 1 = i
    BY <2>1
  <2>4. /\ Popped(s) \in Seq(T)
        /\ Len(Popped(s)) = IF 1 <= n THEN n - 1 + 1 ELSE 0
        /\ \A i \in 1..(n - 1 + 1) : Popped(s)[i] = s[1 + i - 1]
    BY <2>1, <2>2, SubSeqProperties
  <2>5. \A i \in 1..n : Popped(s)[i] = s[i]
    BY <2>3, <2>4
  <2>6. 1..Len(Popped(s)) = 1..n
    BY <2>1, <2>4
  <2> QED
    BY <2>4, <2>5, <2>6 DEF n
<1>3. \A i \in 1..Len(s) : i # Len(s) => i \in 1..(Len(s) - 1)
  BY <1>1
<1>4. 1..(Len(s) - 1) \subseteq 1..Len(s)
  BY <1>1
<1> QED
  BY <1>2, <1>3, <1>4 DEF Items

LEMMA ItemsInOrder ==
  ASSUME NEW S, S \subseteq Pools
  PROVE  InOrder(S) \in Seq(Pools) /\ Items(InOrder(S)) = S
<1> DEFINE one(p) == IF p \in S THEN <<p>> ELSE <<>>
<1>1. ASSUME NEW p \in Pools
      PROVE  one(p) \in Seq(Pools) /\ Items(one(p)) = S \cap {p}
  <2>1. <<p>> \in Seq(Pools) /\ Items(<<p>>) = {p}
    BY DEF Items
  <2>2. <<>> \in Seq(Pools) /\ Items(<<>>) = {}
    BY DEF Items
  <2> QED
    BY <2>1, <2>2
<1>2. ASSUME NEW s \in Seq(Pools), NEW t \in Seq(Pools)
      PROVE  s \o t \in Seq(Pools) /\ Items(s \o t) = Items(s) \cup Items(t)
  <2>1. /\ s \o t \in Seq(Pools) /\ Len(s \o t) = Len(s) + Len(t)
        /\ \A i \in 1..Len(s) : (s \o t)[i] = s[i]
        /\ \A i \in (Len(s) + 1)..(Len(s) + Len(t)) : (s \o t)[i] = t[i - Len(s)]
    BY ConcatProperties
  <2>2. \A i \in 1..(Len(s) + Len(t)) :
          i \in 1..Len(s) \/ (i \in (Len(s) + 1)..(Len(s) + Len(t)) /\ i - Len(s) \in 1..Len(t))
    OBVIOUS
  <2>3. Items(s \o t) \subseteq Items(s) \cup Items(t)
    BY <2>1, <2>2 DEF Items
  <2>4. \A i \in 1..Len(s) : i \in 1..Len(s \o t)
    BY <2>1
  <2>5. Items(s) \subseteq Items(s \o t)
    BY <2>1, <2>4 DEF Items
  <2>6. ASSUME NEW i \in 1..Len(t) PROVE t[i] \in Items(s \o t)
    <3>1. /\ i + Len(s) \in 1..Len(s \o t)
          /\ i + Len(s) \in (Len(s) + 1)..(Len(s) + Len(t)) /\ (i + Len(s)) - Len(s) = i
      BY <2>1
    <3>2. (s \o t)[i + Len(s)] = t[i]
      BY <2>1, <3>1
    <3> QED
      BY <3>1, <3>2 DEF Items
  <2> QED
    BY <2>1, <2>3, <2>5, <2>6 DEF Items
<1>3. {"bpool", "backup", "rpool"} = Pools
  BY DEF Pools
<1>4. /\ one("bpool") \in Seq(Pools) /\ Items(one("bpool")) = S \cap {"bpool"}
      /\ one("backup") \in Seq(Pools) /\ Items(one("backup")) = S \cap {"backup"}
      /\ one("rpool") \in Seq(Pools) /\ Items(one("rpool")) = S \cap {"rpool"}
  <2> HIDE DEF one
  <2> QED
    BY <1>1, <1>3
<1>5. /\ one("bpool") \o one("backup") \in Seq(Pools)
      /\ Items(one("bpool") \o one("backup")) = Items(one("bpool")) \cup Items(one("backup"))
  <2> HIDE DEF one
  <2> QED
    BY <1>2, <1>4
<1>6. /\ one("bpool") \o one("backup") \o one("rpool") \in Seq(Pools)
      /\ Items(one("bpool") \o one("backup") \o one("rpool"))
           = Items(one("bpool")) \cup Items(one("backup")) \cup Items(one("rpool"))
  <2> HIDE DEF one
  <2> QED
    BY <1>2, <1>4, <1>5
<1>7. InOrder(S) = one("bpool") \o one("backup") \o one("rpool")
  BY Zenon DEF InOrder
<1> HIDE DEF one
<1> QED
  BY <1>3, <1>4, <1>6, <1>7
-----------------------------------------------------------------------------
(* Types. *)

USE DEF Pools, Keyed

LEMMA RunTypes ==
  ASSUME run \in RunType
  PROVE  /\ Idle \in RunType
         /\ \A c \in Pcs : [run EXCEPT !.pc = c] \in RunType
         /\ Unwound \in RunType
         /\ \A f \in BOOLEAN : [Unwound EXCEPT !.fixed = f] \in RunType
<1>1. Idle \in RunType
  <2>1. <<>> \in Seq(Pools) /\ {} \in SUBSET Pools
    OBVIOUS
  <2>2. [mounts |-> {}, mapper |-> {}, ksm |-> FALSE, inhibit |-> FALSE]
          \in [mounts : SUBSET Pools, mapper : SUBSET Keyed, ksm : BOOLEAN, inhibit : BOOLEAN]
    OBVIOUS
  <2>3. /\ "none" \in Commands \cup {"none"} /\ "backup" \in Keyed
        /\ "no" \in {"no", "exit", "end"} /\ FALSE \in BOOLEAN
    OBVIOUS
  <2>4. "" \in Pcs
    BY DEF Pcs
  <2> HIDE DEF Pools, Keyed
  <2> QED
    BY <2>1, <2>2, <2>3, <2>4, Zenon DEF Idle, RunType
<1>2. \A c \in Pcs : [run EXCEPT !.pc = c] \in RunType
  BY Zenon DEF RunType
<1>3. \A c \in Pcs : [run EXCEPT !.pc = c, !.ending = "exit"] \in RunType
  BY Zenon DEF RunType
<1>4. Unwound \in RunType
  <2>1. Unwound \in {Idle, [run EXCEPT !.pc = "fix export"],
                     [run EXCEPT !.pc = "cleanup", !.ending = "exit"]}
    BY DEF Unwound
  <2>0. "fix export" \in Pcs /\ "cleanup" \in Pcs
    BY DEF Pcs
  <2>2. /\ [run EXCEPT !.pc = "fix export"] \in RunType
        /\ [run EXCEPT !.pc = "cleanup", !.ending = "exit"] \in RunType
    BY <1>2, <1>3, <2>0, Zenon
  <2> QED
    BY <1>1, <2>1, <2>2, Zenon
<1>5. \A r \in RunType, f \in BOOLEAN : [r EXCEPT !.fixed = f] \in RunType
  BY Zenon DEF RunType
<1> QED
  BY <1>1, <1>2, <1>4, <1>5

(* What the commands write to their own state.                             *)
LEMMA RunEdits ==
  ASSUME NEW r \in RunType
  PROVE  /\ \A p \in Pcs : [r EXCEPT !.pc = p] \in RunType
         /\ \A p \in Pcs, s \in Seq(Pools) : [r EXCEPT !.pc = p, !.pools = s] \in RunType
         /\ \A p \in Pcs, f \in BOOLEAN : [r EXCEPT !.flag = f, !.pc = p] \in RunType
         /\ \A p \in Pcs : [r EXCEPT !.ks = TRUE, !.pc = p] \in RunType
         /\ \A p \in Pcs, m \in SUBSET Pools : [r EXCEPT !.pc = p, !.mnts = m] \in RunType
         /\ \A p \in Pcs, s \in Seq(Pools), m \in SUBSET Pools : [r EXCEPT !.pc = p, !.pools = s, !.mnts = m] \in RunType
         /\ \A p \in Pcs, e \in {"no", "exit", "end"} : [r EXCEPT !.pc = p, !.ending = e] \in RunType
         /\ \A p \in Pcs, f \in BOOLEAN, s \in Seq(Pools) : [r EXCEPT !.pc = p, !.flag = f, !.pools = s] \in RunType
         /\ \A s \in Seq(Pools) : [r EXCEPT !.pools = s] \in RunType
         /\ \A s \in Seq(Pools), k \in SUBSET Pools : [r EXCEPT !.pools = s, !.stuck = k] \in RunType
         /\ \A p \in Pcs, s \in Seq(Pools), k \in SUBSET Pools : [r EXCEPT !.pc = p, !.pools = s, !.stuck = k] \in RunType
         /\ \A f \in BOOLEAN : [r EXCEPT !.fixed = f] \in RunType
<1>1. \A p \in Pcs : [r EXCEPT !.pc = p] \in RunType
  BY Zenon DEF RunType
<1>2. \A p \in Pcs, s \in Seq(Pools) : [r EXCEPT !.pc = p, !.pools = s] \in RunType
  BY Zenon DEF RunType
<1>3. \A p \in Pcs, f \in BOOLEAN : [r EXCEPT !.flag = f, !.pc = p] \in RunType
  BY Zenon DEF RunType
<1>4. \A p \in Pcs : [r EXCEPT !.ks = TRUE, !.pc = p] \in RunType
  BY Zenon DEF RunType
<1>5. \A p \in Pcs, m \in SUBSET Pools : [r EXCEPT !.pc = p, !.mnts = m] \in RunType
  BY Zenon DEF RunType
<1>6. \A p \in Pcs, s \in Seq(Pools), m \in SUBSET Pools : [r EXCEPT !.pc = p, !.pools = s, !.mnts = m] \in RunType
  BY Zenon DEF RunType
<1>7. \A p \in Pcs, e \in {"no", "exit", "end"} : [r EXCEPT !.pc = p, !.ending = e] \in RunType
  BY Zenon DEF RunType
<1>8. \A p \in Pcs, f \in BOOLEAN, s \in Seq(Pools) : [r EXCEPT !.pc = p, !.flag = f, !.pools = s] \in RunType
  BY Zenon DEF RunType
<1>9. \A s \in Seq(Pools) : [r EXCEPT !.pools = s] \in RunType
  BY Zenon DEF RunType
<1>10. \A s \in Seq(Pools), k \in SUBSET Pools : [r EXCEPT !.pools = s, !.stuck = k] \in RunType
  BY Zenon DEF RunType
<1>11. \A p \in Pcs, s \in Seq(Pools), k \in SUBSET Pools : [r EXCEPT !.pc = p, !.pools = s, !.stuck = k] \in RunType
  BY Zenon DEF RunType
<1>12. \A f \in BOOLEAN : [r EXCEPT !.fixed = f] \in RunType
  BY Zenon DEF RunType
<1> QED
  BY <1>1, <1>2, <1>3, <1>4, <1>5, <1>6, <1>7, <1>8, <1>9, <1>10, <1>11, <1>12

(* The running command's own state keeps its type.                         *)
LEMMA RunStep ==
  ASSUME TypeOK, [Next]_vars
  PROVE  run' \in RunType
<1>1. /\ run \in RunType /\ Idle \in RunType /\ Unwound \in RunType
      /\ \A f \in BOOLEAN : [Unwound EXCEPT !.fixed = f] \in RunType
  BY RunTypes, Zenon DEF TypeOK
<1>2. \A p \in Pcs : [run EXCEPT !.pc = p] \in RunType
  BY <1>1, RunEdits, Zenon
<1>3. \A p \in Pcs, f \in BOOLEAN : [run EXCEPT !.flag = f, !.pc = p] \in RunType
  BY <1>1, RunEdits, Zenon
<1>R. /\ run.pool \in Pools /\ run.pools \in Seq(Pools) /\ run.mnts \in SUBSET Pools
      /\ run.stuck \in SUBSET Pools
  BY <1>1 DEF RunType
<1>P. Pcs = {"", "import", "track", "open", "ksmount", "key", "track ks", "root", "boot",
        "track boot", "last", "leave", "shell", "cleanup", "tree", "attach",
        "ksumount", "ksclose", "export", "elsewhere", "again", "judge",
        "clean trees", "clean ks", "clean close", "clean inhibit", "clean judge",
        "inhibit", "fix check", "fix off", "fix set", "fix export", "fix restore"}
  BY DEF Pcs
<1>S. /\ \A c \in Commands, p \in Pcs : [[Idle EXCEPT !.pc = p] EXCEPT !.cmd = c] \in RunType
      /\ \A c \in Commands, p \in Pcs, k \in Keyed :
           [[Idle EXCEPT !.pc = p, !.pool = k] EXCEPT !.cmd = c] \in RunType
      /\ \A c \in Commands, p \in Pcs, k \in Keyed, b \in BOOLEAN :
           [[Idle EXCEPT !.pc = p, !.pool = k, !.prev = b] EXCEPT !.cmd = c] \in RunType
      /\ {"mount", "local", "chroot", "umount", "umount local", "fix"} \subseteq Commands
      /\ {"import", "tree", "inhibit"} \subseteq Pcs
  <2>1. \A r \in RunType, c \in Commands : [r EXCEPT !.cmd = c] \in RunType
    BY Zenon DEF RunType
  <2>2. /\ \A p \in Pcs : [Idle EXCEPT !.pc = p] \in RunType
        /\ \A p \in Pcs, k \in Keyed : [Idle EXCEPT !.pc = p, !.pool = k] \in RunType
        /\ \A p \in Pcs, k \in Keyed, b \in BOOLEAN :
             [Idle EXCEPT !.pc = p, !.pool = k, !.prev = b] \in RunType
    <3>1. \A r \in RunType, p \in Pcs, k \in Keyed :
            [r EXCEPT !.pc = p, !.pool = k] \in RunType
      BY Zenon DEF RunType
    <3>2. \A r \in RunType, p \in Pcs, k \in Keyed, b \in BOOLEAN :
            [r EXCEPT !.pc = p, !.pool = k, !.prev = b] \in RunType
      BY Zenon DEF RunType
    <3> QED
      BY <1>1, <3>1, <3>2, RunEdits, Zenon
  <2>3. {"mount", "local", "chroot", "umount", "umount local", "fix"} \subseteq Commands
    BY DEF Commands
  <2>4. {"import", "tree", "inhibit"} \subseteq Pcs
    BY <1>P
  <2> HIDE DEF Keyed
  <2> QED
    BY <2>1, <2>2, <2>3, <2>4, Zenon
<1>C. \A s \in Seq(Pools), v \in [mounts : SUBSET Pools, mapper : SUBSET Keyed,
                                   ksm : BOOLEAN, inhibit : BOOLEAN] :
        [Idle EXCEPT !.cmd = "clean", !.pc = "clean trees", !.inv = v, !.pools = s] \in RunType
  <2>1. "clean" \in Commands /\ "clean trees" \in Pcs
    BY <1>P DEF Commands
  <2> HIDE DEF Pools, Keyed
  <2> QED
    BY <1>1, <2>1, Zenon DEF RunType
<1>4. CASE Import
  BY <1>P, <1>1, <1>2, <1>4 DEF Import, At, Go, Exit
<1>5. CASE Track
  <2>1. Append(run.pools, run.pool) \in Seq(Pools)
    BY <1>R, ItemsAppend
  <2>2. run' = [run EXCEPT !.pc = "open", !.pools = Append(@, run.pool)]
    BY <1>5, Zenon DEF Track
  <2> QED
    BY <1>1, <1>P, <2>1, <2>2, RunEdits, Zenon
<1>6. CASE KsOpen
  BY <1>P, <1>1, <1>2, <1>6 DEF KsOpen, At, Go, Exit
<1>7. CASE KsMount
  <2>1. run' \in {[run EXCEPT !.pc = "key"], Unwound}
    BY <1>7, Zenon DEF KsMount, Go, Exit
  <2> QED
    BY <1>1, <1>2, <1>P, <2>1
<1>8. CASE KsKey
  <2>1. \/ run' = [run EXCEPT !.flag = TRUE,
                               !.pc = IF run.cmd = "mount" THEN "ksumount" ELSE "track ks"]
        \/ run' = Unwound
    BY <1>8, Zenon DEF KsKey, Exit
  <2>2. (IF run.cmd = "mount" THEN "ksumount" ELSE "track ks") \in Pcs
    BY <1>P
  <2> QED
    BY <1>1, <1>3, <2>1, <2>2, Zenon
<1>9. CASE TrackKs
  <2>1. run' = [run EXCEPT !.ks = TRUE, !.pc = "root"]
    BY <1>9, Zenon DEF TrackKs
  <2> QED
    BY <1>1, <1>P, <2>1, RunEdits, Zenon
<1>10. CASE Root
  <2> DEFINE c == IF run.cmd = "mount" THEN "leave" ELSE "boot"
             m == IF run.cmd = "mount" THEN run.mnts ELSE run.mnts \cup {"rpool"}
  <2>1. run' = [run EXCEPT !.pc = c, !.mnts = m] \/ run' = Unwound
    BY <1>10, Zenon DEF Root, Exit
  <2>2. c \in Pcs /\ m \in SUBSET Pools
    BY <1>P, <1>R
  <2>3. \A x \in Pcs, y \in SUBSET Pools : [run EXCEPT !.pc = x, !.mnts = y] \in RunType
    BY <1>1, RunEdits, Zenon
  <2> HIDE DEF c, m
  <2>4. [run EXCEPT !.pc = c, !.mnts = m] \in RunType
    BY <2>2, <2>3, Zenon
  <2> QED
    BY <1>1, <2>1, <2>4, Zenon
<1>11. CASE BootExt4
  BY <1>P, <1>1, <1>2, <1>11 DEF BootExt4, At, Go
<1>12. CASE BootPool
  BY <1>P, <1>1, <1>2, <1>12 DEF BootPool, At, Go
<1>13. CASE TrackBoot
  <2>1. /\ Append(run.pools, "bpool") \in Seq(Pools)
        /\ run.mnts \cup {"bpool"} \in SUBSET Pools
    BY <1>R, ItemsAppend
  <2>2. run' = [run EXCEPT !.pc = "last", !.pools = Append(@, "bpool"),
                           !.mnts = @ \cup {"bpool"}]
    BY <1>13, Zenon DEF TrackBoot
  <2> QED
    BY <1>1, <1>P, <2>1, <2>2, RunEdits, Zenon
<1>14. CASE Last
  BY <1>P, <1>1, <1>2, <1>14 DEF Last, At, Go
<1>15. CASE Leave
  BY <1>P, <1>1, <1>2, <1>15 DEF Leave, At, End
<1>16. CASE CleanUp
  <2>1. run' = [run EXCEPT !.pc = IF run.ks THEN "ksumount" ELSE "export"]
    BY <1>16, Zenon DEF CleanUp, Go
  <2>2. (IF run.ks THEN "ksumount" ELSE "export") \in Pcs
    BY <1>P
  <2> QED
    BY <1>2, <2>1, <2>2, Zenon
<1>17. CASE Attach
  <2>1. InOrder({p \in InTree(run.pool) : pool[p] # "out"}) \in Seq(Pools)
    BY ItemsInOrder DEF InTree
  <2>2. run' = [run EXCEPT !.pc = "ksumount", !.flag = run.pool \in mapper,
                           !.pools = InOrder({p \in InTree(run.pool) : pool[p] # "out"})]
    BY <1>17, Zenon DEF Attach
  <2>3. (run.pool \in mapper) \in BOOLEAN
    OBVIOUS
  <2>4. \A f \in BOOLEAN, s \in Seq(Pools) :
          [run EXCEPT !.pc = "ksumount", !.flag = f, !.pools = s] \in RunType
    BY <1>1, <1>P, RunEdits, Zenon
  <2> QED
    BY <2>1, <2>2, <2>3, <2>4, Zenon
<1>18. CASE KsUmount
  <2>1. run' \in {[run EXCEPT !.pc = AfterKs], [run EXCEPT !.pc = "ksclose"]}
    BY <1>18, Zenon DEF KsUmount, Go
  <2>2. AfterKs \in Pcs /\ "ksclose" \in Pcs
    BY <1>P DEF AfterKs
  <2> QED
    BY <1>2, <2>1, <2>2, Zenon
<1>19. CASE KsClose
  <2>1. run' = [run EXCEPT !.flag = FALSE, !.pc = AfterKs]
    BY <1>19, Zenon DEF KsClose
  <2>2. AfterKs \in Pcs
    BY <1>P DEF AfterKs
  <2> QED
    BY <1>3, <2>1, <2>2, Zenon
<1>20. CASE Export
  <2>1. Head(run.pools) \in Pools /\ Tail(run.pools) \in Seq(Pools)
    BY <1>R, <1>20, ItemsTail DEF Export
  <2>2. \/ run' = [run EXCEPT !.pools = Tail(@)]
        \/ run' = [run EXCEPT !.pools = Tail(@), !.stuck = @ \cup {Head(run.pools)}]
    BY <1>20, Zenon DEF Export
  <2>3. run.stuck \cup {Head(run.pools)} \in SUBSET Pools
    BY <1>R, <2>1
  <2>4. [run EXCEPT !.pools = Tail(@)] \in RunType
    BY <1>1, <2>1, RunEdits, Zenon
  <2>5. [run EXCEPT !.pools = Tail(@), !.stuck = @ \cup {Head(run.pools)}] \in RunType
    BY <1>1, <2>1, <2>3, RunEdits, Zenon
  <2> QED
    BY <2>2, <2>4, <2>5, Zenon
<1>21. CASE Exported
  <2>1. \E c \in {"elsewhere", "clean inhibit", "judge"} : run' = [run EXCEPT !.pc = c]
    BY <1>21 DEF Exported, Go
  <2> QED
    BY <1>2, <1>P, <2>1
<1>22. CASE Elsewhere
  <2>1. InOrder(run.stuck) \in Seq(Pools) /\ {} \in SUBSET Pools
    BY <1>R, ItemsInOrder
  <2>2. run' = [run EXCEPT !.pc = "again", !.pools = InOrder(run.stuck), !.stuck = {}]
    BY <1>22, Zenon DEF Elsewhere
  <2> QED
    BY <1>1, <1>P, <2>1, <2>2, RunEdits, Zenon
<1>23. CASE Again
  BY <1>P, <1>1, <1>2, <1>23 DEF Again, At, Go
<1>24. CASE Cleaned
  BY <1>P, <1>1, <1>2, <1>24 DEF Cleaned, At, End
<1>25. CASE Tree
  BY <1>P, <1>1, <1>2, <1>25 DEF Tree, At, Go
<1>26. CASE Judge
  BY <1>P, <1>1, <1>2, <1>26 DEF Judge, At, End
<1>27. CASE CleanTrees
  BY <1>P, <1>1, <1>2, <1>27 DEF CleanTrees, At, Go
<1>28. CASE CleanKs
  BY <1>P, <1>1, <1>2, <1>28 DEF CleanKs, At, Go
<1>29. CASE CleanClose
  BY <1>P, <1>1, <1>2, <1>29 DEF CleanClose, At, Go
<1>30. CASE CleanInhibit
  BY <1>P, <1>1, <1>2, <1>30 DEF CleanInhibit, At, Go
<1>31. CASE CleanJudge
  BY <1>P, <1>1, <1>2, <1>31 DEF CleanJudge, At, End
<1>32. CASE FixInhibit
  BY <1>P, <1>1, <1>2, <1>32 DEF FixInhibit, At, Go
<1>33. CASE FixCheck
  BY <1>P, <1>1, <1>2, <1>33 DEF FixCheck, At, Go, Exit
<1>34. CASE FixOff
  BY <1>P, <1>1, <1>2, <1>34 DEF FixOff, At, Go, Exit
<1>35. CASE FixSet
  <2>1. run' \in {[Unwound EXCEPT !.fixed = TRUE], Unwound}
    BY <1>35, Zenon DEF FixSet, Exit
  <2> QED
    BY <1>1, <2>1
<1>36. CASE FixExport
  BY <1>P, <1>1, <1>2, <1>36 DEF FixExport, At, Go
<1>37. CASE FixRestore
  BY <1>P, <1>1, <1>2, <1>37 DEF FixRestore, At, End
<1>38. CASE Shell
  <2>1. run' = [run EXCEPT !.pc = "cleanup", !.ending = "end"]
    BY <1>38, Zenon DEF Shell
  <2> QED
    BY <1>1, <1>P, <2>1, RunEdits, Zenon
<1>39. CASE StartMount
  <2>1. run' = [[Idle EXCEPT !.pc = "import"] EXCEPT !.cmd = "mount"]
    BY <1>39, Zenon DEF StartMount, Start
  <2> QED
    BY <1>S, <2>1
<1>40. CASE StartLocal
  <2>1. PICK cmd \in {"local", "chroot"} :
          run' = [[Idle EXCEPT !.pc = "import", !.pool = "rpool"] EXCEPT !.cmd = cmd]
    BY <1>40, Zenon DEF StartLocal, Start
  <2>2. cmd \in Commands /\ "rpool" \in Keyed
    BY <1>S
  <2> QED
    BY <1>S, <2>1, <2>2
<1>41. CASE StartUmount
  <2>1. run' = [[Idle EXCEPT !.pc = "tree"] EXCEPT !.cmd = "umount"]
    BY <1>41, Zenon DEF StartUmount, Start
  <2> QED
    BY <1>S, <2>1
<1>42. CASE StartUmountLocal
  <2>1. run' = [[Idle EXCEPT !.pc = "tree", !.pool = "rpool"] EXCEPT !.cmd = "umount local"]
    BY <1>42, Zenon DEF StartUmountLocal, Start
  <2> QED
    BY <1>S, <2>1
<1>43. CASE StartFix
  <2>1. run' = [[Idle EXCEPT !.pc = "inhibit", !.pool = "rpool", !.prev = inhibit]
                  EXCEPT !.cmd = "fix"]
    BY <1>43, Zenon DEF StartFix, Start
  <2> QED
    BY <1>S, <2>1 DEF TypeOK
<1>44. CASE StartClean
  <2>1. InOrder(Zark) \in Seq(Pools)
    BY ItemsInOrder DEF Zark
  <2>2. Inventory \in [mounts : SUBSET Pools, mapper : SUBSET Keyed,
                       ksm : BOOLEAN, inhibit : BOOLEAN]
    BY DEF TypeOK, Inventory, KsMounted
  <2>4. [Idle EXCEPT !.cmd = "clean", !.pc = "clean trees", !.inv = Inventory,
                     !.pools = InOrder(Zark)] \in RunType
    BY <1>C, <2>1, <2>2, Zenon
  <2>3. \/ run' = [Idle EXCEPT !.cmd = "clean", !.pc = "clean trees",
                                !.inv = Inventory, !.pools = InOrder(Zark)]
        \/ run' = Idle
    BY <1>44, Zenon DEF StartClean, End
  <2> QED
    BY <1>1, <2>3, <2>4, Zenon
<1>45. CASE Signal
  BY <1>P, <1>1, <1>2, <1>45 DEF Signal, Exit
<1>46. CASE Kill
  BY <1>P, <1>1, <1>2, <1>46 DEF Kill
<1>47. CASE Guest
  BY <1>P, <1>1, <1>2, <1>47 DEF Guest
<1>48. CASE GuestLeaves
  BY <1>P, <1>1, <1>2, <1>48 DEF GuestLeaves
<1>49. CASE Finished
  BY <1>P, <1>1, <1>2, <1>49 DEF Finished, vars
<1> QED
  BY <1>4, <1>5, <1>6, <1>7, <1>8, <1>9, <1>10, <1>11, <1>12, <1>13, <1>14, <1>15,
     <1>16, <1>17, <1>18, <1>19, <1>20, <1>21, <1>22, <1>23, <1>24, <1>25, <1>26, <1>27,
     <1>28, <1>29, <1>30, <1>31, <1>32, <1>33, <1>34, <1>35, <1>36, <1>37, <1>38, <1>39,
     <1>40, <1>41, <1>42, <1>43, <1>44, <1>45, <1>46, <1>47, <1>48, <1>49, <1>1  DEF
     Next, Step, Opening, Closing, Cleaning, Fixing, vars

LEMMA TypeStep ==
  ASSUME TypeOK, [Next]_vars
  PROVE  TypeOK'
<1>1. run' \in RunType /\ run.pool \in Keyed
  BY RunStep, Zenon DEF TypeOK, RunType
<1>P. run.prev \in BOOLEAN
  BY Zenon DEF TypeOK, RunType
<1>2. SubSeq(stack, 1, Len(stack) - 1) \in Seq(Keyed \cup {"live"})
  BY ItemsPopped, Zenon DEF TypeOK, Popped
<1>3. Append(stack, run.pool) \in Seq(Keyed \cup {"live"})
  BY <1>1, ItemsAppend DEF TypeOK
<1>C. /\ (runs < MaxRuns => runs + 1 \in 0..MaxRuns)
      /\ (faults < MaxFaults => faults + 1 \in 0..MaxFaults)
      /\ (guests < MaxGuests => guests + 1 \in 0..MaxGuests)
  BY BoundsAssumption DEF TypeOK
<1> USE <1>C DEF system, held, props
<1>4. CASE Import
  BY <1>1, <1>4 DEF TypeOK, Import, Fault, Imported
<1>5. CASE Track
  BY <1>1, <1>5 DEF TypeOK, Track
<1>6. CASE KsOpen
  BY <1>1, <1>6 DEF TypeOK, KsOpen, Fault
<1>7. CASE KsMount
  BY <1>1, <1>3, <1>7 DEF TypeOK, KsMount, Fault
<1>8. CASE KsKey
  BY <1>1, <1>8 DEF TypeOK, KsKey, Fault
<1>9. CASE TrackKs
  BY <1>1, <1>9 DEF TypeOK, TrackKs
<1>10. CASE Root
  BY <1>1, <1>10 DEF TypeOK, Root, Fault, Landing, LayoutTarget
<1>11. CASE BootExt4
  BY <1>1, <1>11 DEF TypeOK, BootExt4, Fault
<1>12. CASE BootPool
  BY <1>1, <1>12 DEF TypeOK, BootPool, Fault, Imported
<1>13. CASE TrackBoot
  BY <1>1, <1>13 DEF TypeOK, TrackBoot
<1>14. CASE Last
  BY <1>1, <1>14 DEF TypeOK, Last
<1>15. CASE Leave
  BY <1>1, <1>15 DEF TypeOK, Leave, End, Banners
<1>16. CASE CleanUp
  BY <1>1, <1>16 DEF TypeOK, CleanUp, Propagated
<1>17. CASE Attach
  BY <1>1, <1>17 DEF TypeOK, Attach
<1>18. CASE KsUmount
  BY <1>1, <1>2, <1>18 DEF TypeOK, KsUmount, Fault
<1>19. CASE KsClose
  BY <1>1, <1>19 DEF TypeOK, KsClose, Fault
<1>20. CASE Export
  BY <1>1, <1>20 DEF TypeOK, Export, Fault, Gone, CanExport
<1>21. CASE Exported
  BY <1>1, <1>21 DEF TypeOK, Exported
<1>22. CASE Elsewhere
  BY <1>1, <1>22 DEF TypeOK, Elsewhere, Fault
<1>23. CASE Again
  BY <1>1, <1>23 DEF TypeOK, Again
<1>24. CASE Cleaned
  BY <1>1, <1>24 DEF TypeOK, Cleaned, End, Banners
<1>25. CASE Tree
  BY <1>1, <1>25 DEF TypeOK, Tree, UnmountTree, Propagated, Kept
<1>26. CASE Judge
  BY <1>1, <1>26 DEF TypeOK, Judge, End, Banners
<1>27. CASE CleanTrees
  BY <1>1, <1>27 DEF TypeOK, CleanTrees, UnmountTree, Propagated, Kept
<1>28. CASE CleanKs
  BY <1>1, <1>2, <1>28 DEF TypeOK, CleanKs, Fault
<1>29. CASE CleanClose
  BY <1>1, <1>29 DEF TypeOK, CleanClose, Fault
<1>30. CASE CleanInhibit
  BY <1>1, <1>30 DEF TypeOK, CleanInhibit, Fault
<1>31. CASE CleanJudge
  BY <1>1, <1>31 DEF TypeOK, CleanJudge, End, Banners
<1>32. CASE FixInhibit
  BY <1>1, <1>32 DEF TypeOK, FixInhibit
<1>33. CASE FixCheck
  BY <1>1, <1>33 DEF TypeOK, FixCheck
<1>34. CASE FixOff
  BY <1>1, <1>34 DEF TypeOK, FixOff, Fault
<1>35. CASE FixSet
  BY <1>1, <1>35 DEF TypeOK, FixSet, Fault
<1>36. CASE FixExport
  <2>1. CASE CanExport("rpool") /\ Gone("rpool") /\ UNCHANGED faults
    BY <1>1, <1>36, <2>1 DEF TypeOK, FixExport, Gone, CanExport
  <2>2. CASE UNCHANGED held /\ (UNCHANGED faults \/ Fault)
    BY <1>1, <1>36, <2>2 DEF TypeOK, FixExport, Fault
  <2> QED
    BY <1>36, <2>1, <2>2, Zenon DEF FixExport
<1>37. CASE FixRestore
  BY <1>1, <1>P, <1>37 DEF TypeOK, FixRestore, End, Banners
<1>38. CASE Shell
  BY <1>1, <1>38 DEF TypeOK, Shell
<1>39. CASE StartMount
  BY <1>1, <1>39 DEF TypeOK, StartMount, Start, Banners
<1>40. CASE StartLocal
  BY <1>1, <1>40 DEF TypeOK, StartLocal, Start, Banners
<1>41. CASE StartUmount
  BY <1>1, <1>41 DEF TypeOK, StartUmount, Start, Banners
<1>42. CASE StartUmountLocal
  BY <1>1, <1>42 DEF TypeOK, StartUmountLocal, Start, Banners
<1>43. CASE StartFix
  BY <1>1, <1>43 DEF TypeOK, StartFix, Start, Banners
<1>44. CASE StartClean
  BY <1>1, <1>44 DEF TypeOK, StartClean, End, Banners
<1>45. CASE Signal
  BY <1>1, <1>45 DEF TypeOK, Signal, Fault
<1>46. CASE Kill
  BY <1>1, <1>46 DEF TypeOK, Kill, Fault
<1>47. CASE Guest
  BY <1>1, <1>47 DEF TypeOK, Guest
<1>48. CASE GuestLeaves
  BY <1>1, <1>48 DEF TypeOK, GuestLeaves
<1>49. CASE Finished
  BY <1>1, <1>49 DEF TypeOK, Finished, vars
<1>50. CASE UNCHANGED vars
  BY <1>1, <1>50 DEF TypeOK, vars
<1> QED
  BY <1>4, <1>5, <1>6, <1>7, <1>8, <1>9, <1>10, <1>11, <1>12, <1>13, <1>14, <1>15,
     <1>16, <1>17, <1>18, <1>19, <1>20, <1>21, <1>22, <1>23, <1>24, <1>25, <1>26, <1>27,
     <1>28, <1>29, <1>30, <1>31, <1>32, <1>33, <1>34, <1>35, <1>36, <1>37, <1>38, <1>39,
     <1>40, <1>41, <1>42, <1>43, <1>44, <1>45, <1>46, <1>47, <1>48, <1>49, <1>50  DEF
     Next, Step, Opening, Closing, Cleaning, Fixing

LEMMA LanesStep ==
  ASSUME TypeOK, Lanes, [Next]_vars
  PROVE  Lanes'
<1>R. run \in RunType
  BY DEF TypeOK
<1> USE DEF RunType
<1>U. ASSUME run' = Unwound, run.cmd # "none", said' = said
      PROVE  Lanes'
  <2>1. CASE run.cmd = "fix"
    BY <1>R, <1>U, <2>1 DEF Lanes, Unwound
  <2>2. CASE run.cmd \in {"mount", "local", "chroot"}
    BY <1>R, <1>U, <2>2 DEF Lanes, Unwound
  <2>3. CASE run.cmd \notin {"fix", "mount", "local", "chroot"}
    <3>1. run' = Idle
      BY <1>U, <2>3 DEF Unwound
    <3> QED
      BY <3>1 DEF Lanes, Idle
  <2> QED
    BY <2>1, <2>2, <2>3
<1>1. CASE Import
  <2>1. CASE run' = Unwound /\ UNCHANGED said
    BY <1>U, <1>1, <2>1 DEF Import, At
  <2>2. CASE run' # Unwound
    BY <1>R, <1>1, <2>2 DEF Import, At, Go, Fault, Imported, Exit, Lanes, Making,
       Unmounting, Idle
  <2> QED
    BY <1>1, <2>1, <2>2 DEF Import
<1>2. CASE Track
  BY <1>R, <1>2 DEF Track, At, Lanes, Making, Unmounting, Idle
<1>3. CASE KsOpen
  <2>1. CASE run' = Unwound /\ UNCHANGED said
    BY <1>U, <1>3, <2>1 DEF KsOpen, At
  <2>2. CASE run' # Unwound
    BY <1>R, <1>3, <2>2 DEF KsOpen, At, Go, Fault, Exit, Lanes, Making,
       Unmounting, Idle
  <2> QED
    BY <1>3, <2>1, <2>2 DEF KsOpen
<1>4. CASE KsMount
  <2>1. CASE run' = Unwound /\ UNCHANGED said
    BY <1>U, <1>4, <2>1 DEF KsMount, At
  <2>2. CASE run' # Unwound
    BY <1>R, <1>4, <2>2 DEF KsMount, At, Go, Fault, Exit, Lanes, Making,
       Unmounting, Idle
  <2> QED
    BY <1>4, <2>1, <2>2 DEF KsMount
<1>5. CASE KsKey
  <2>1. CASE run' = Unwound /\ UNCHANGED said
    BY <1>U, <1>5, <2>1 DEF KsKey, At
  <2>2. CASE run' # Unwound
    BY <1>R, <1>5, <2>2 DEF KsKey, At, Fault, Exit, Lanes, Making,
       Unmounting, Idle
  <2> QED
    BY <1>5, <2>1, <2>2 DEF KsKey
<1>6. CASE TrackKs
  BY <1>R, <1>6 DEF TrackKs, At, Lanes, Making, Unmounting, Idle
<1>7. CASE Root
  <2>1. CASE run' = Unwound /\ UNCHANGED said
    BY <1>U, <1>7, <2>1 DEF Root, At
  <2>2. CASE run' # Unwound
    BY <1>R, <1>7, <2>2 DEF Root, At, Fault, Exit, Lanes, Making,
       Unmounting, Idle
  <2> QED
    BY <1>7, <2>1, <2>2 DEF Root
<1>8. CASE BootExt4
  BY <1>R, <1>8 DEF BootExt4, At, Go, Fault, Lanes, Making, Unmounting, Idle
<1>9. CASE BootPool
  BY <1>R, <1>9 DEF BootPool, At, Go, Fault, Imported, Lanes, Making, Unmounting, Idle
<1>10. CASE TrackBoot
  BY <1>R, <1>10 DEF TrackBoot, At, Lanes, Making, Unmounting, Idle
<1>11. CASE Last
  <2>1. run.cmd \in {"local", "chroot"} /\ run.ending = "no" /\ said' = said
    BY <1>R, <1>11 DEF Last, At, Lanes, Making, Unmounting, Commands
  <2>2. \E c \in {"leave", "shell"} : run' = [run EXCEPT !.pc = c]
    BY <1>11 DEF Last, Go
  <2> QED
    BY <1>R, <2>1, <2>2 DEF Lanes, Making
<1>12. CASE Leave
  BY <1>R, <1>12 DEF Leave, At, End, Lanes, Making, Unmounting, Idle
<1>13. CASE CleanUp
  BY <1>R, <1>13 DEF CleanUp, At, Go, Lanes, Making, Unmounting, Idle
<1>14. CASE Attach
  BY <1>R, <1>14 DEF Attach, At, Lanes, Making, Unmounting, Idle
<1>15. CASE KsUmount
  BY <1>R, <1>15 DEF KsUmount, At, Go, Fault, AfterKs, Lanes, Making, Unmounting, Idle
<1>16. CASE KsClose
  BY <1>R, <1>16 DEF KsClose, At, Fault, AfterKs, Lanes, Making, Unmounting, Idle
<1>17. CASE Export
  BY <1>R, <1>17 DEF Export, At, Fault, Gone, CanExport, Lanes, Making, Unmounting, Idle
<1>18. CASE Exported
  BY <1>R, <1>18 DEF Exported, At, Go, Lanes, Making, Unmounting, Idle
<1>19. CASE Elsewhere
  BY <1>R, <1>19 DEF Elsewhere, At, Fault, Lanes, Making, Unmounting, Idle
<1>20. CASE Again
  BY <1>R, <1>20 DEF Again, At, Go, Lanes, Making, Unmounting, Idle
<1>21. CASE Cleaned
  BY <1>R, <1>21 DEF Cleaned, At, End, Zark, Lanes, Making, Unmounting, Idle
<1>22. CASE Tree
  BY <1>R, <1>22 DEF Tree, At, Go, UnmountTree, Lanes, Making, Unmounting, Idle
<1>23. CASE Judge
  BY <1>R, <1>23 DEF Judge, At, End, Lanes, Making, Unmounting, Idle
<1>24. CASE CleanTrees
  BY <1>R, <1>24 DEF CleanTrees, At, Go, UnmountTree, Lanes, Making, Unmounting, Idle
<1>25. CASE CleanKs
  BY <1>R, <1>25 DEF CleanKs, At, Go, Fault, Lanes, Making, Unmounting, Idle
<1>26. CASE CleanClose
  BY <1>R, <1>26 DEF CleanClose, At, Go, Fault, Lanes, Making, Unmounting, Idle
<1>27. CASE CleanInhibit
  BY <1>R, <1>27 DEF CleanInhibit, At, Go, Fault, Zark, Lanes, Making, Unmounting, Idle
<1>28. CASE CleanJudge
  BY <1>R, <1>28 DEF CleanJudge, At, End, Zark, Empty, Lanes, Making, Unmounting, Idle
<1>29. CASE FixInhibit
  BY <1>R, <1>29 DEF FixInhibit, At, Go, Lanes, Making, Unmounting, Idle
<1>30. CASE FixCheck
  <2>1. CASE run' = Unwound
    BY <1>U, <1>30, <2>1 DEF FixCheck, At
  <2>2. CASE \E pc \in {"fix off", "fix set"} : Go(pc)
    BY <1>R, <1>30, <2>2 DEF FixCheck, At, Go, Lanes, Making, Unmounting
  <2>3. CASE run' = [Unwound EXCEPT !.fixed = zvols = {}]
    <3>1. run.cmd = "fix" /\ said' = said
      BY <1>R, <1>30 DEF FixCheck, At, Lanes, Making, Unmounting, Commands
    <3>2. Unwound = [run EXCEPT !.pc = "fix export"]
      BY <3>1 DEF Unwound
    <3> QED
      BY <1>R, <2>3, <3>1, <3>2 DEF Lanes
  <2> QED
    BY <1>30, <2>1, <2>2, <2>3, Zenon DEF FixCheck, Exit
<1>31. CASE FixOff
  <2>1. CASE run' = Unwound /\ UNCHANGED said
    BY <1>U, <1>31, <2>1 DEF FixOff, At
  <2>2. CASE run' # Unwound
    BY <1>R, <1>31, <2>2 DEF FixOff, At, Go, Fault, Exit, Lanes, Making,
       Unmounting, Idle
  <2> QED
    BY <1>31, <2>1, <2>2 DEF FixOff
<1>32. CASE FixSet
  <2>1. CASE run' = Unwound
    BY <1>U, <1>32, <2>1 DEF FixSet, At
  <2>2. CASE run' = [Unwound EXCEPT !.fixed = TRUE]
    <3>1. run.cmd = "fix" /\ said' = said
      BY <1>R, <1>32 DEF FixSet, At, Lanes, Making, Unmounting, Commands
    <3>2. Unwound = [run EXCEPT !.pc = "fix export"]
      BY <3>1 DEF Unwound
    <3> QED
      BY <1>R, <2>2, <3>1, <3>2 DEF Lanes
  <2> QED
    BY <1>32, <2>1, <2>2, Zenon DEF FixSet, Exit
<1>33. CASE FixExport
  BY <1>R, <1>33 DEF FixExport, At, Go, Fault, Gone, CanExport, Lanes, Making,
     Unmounting, Idle
<1>34. CASE FixRestore
  BY <1>R, <1>34 DEF FixRestore, At, End, Lanes, Making, Unmounting, Idle
<1>35. CASE Shell
  BY <1>R, <1>35 DEF Shell, At, Lanes, Making, Unmounting, Idle
<1>36. CASE StartMount
  BY <1>R, <1>36 DEF StartMount, Start, Lanes, Making, Unmounting, Idle
<1>37. CASE StartLocal
  BY <1>R, <1>37 DEF StartLocal, Start, Lanes, Making, Unmounting, Idle
<1>38. CASE StartUmount
  BY <1>R, <1>38 DEF StartUmount, Start, Lanes, Making, Unmounting, Idle
<1>39. CASE StartUmountLocal
  BY <1>R, <1>39 DEF StartUmountLocal, Start, Lanes, Making, Unmounting, Idle
<1>40. CASE StartFix
  <2>1. /\ run' = [[Idle EXCEPT !.pc = "inhibit", !.pool = "rpool", !.prev = inhibit]
                   EXCEPT !.cmd = "fix"]
        /\ said' = ""
    BY <1>40, Zenon DEF StartFix, Start
  <2>2. /\ run'.cmd = "fix" /\ run'.pc = "inhibit" /\ run'.pool = "rpool"
        /\ run'.ending = "no"
    BY <2>1, Zenon DEF Idle
  <2> QED
    BY <2>1, <2>2 DEF Lanes
<1>41. CASE StartClean
  <2>1. CASE run' = Idle
    BY <2>1 DEF Lanes, Idle
  <2>2. CASE /\ run' = [Idle EXCEPT !.cmd = "clean", !.pc = "clean trees",
                                    !.inv = Inventory, !.pools = InOrder(Zark)]
             /\ said' = ""
    <3>1. run'.cmd = "clean" /\ run'.pc = "clean trees" /\ run'.ending = "no"
      BY <2>2, Zenon DEF Idle
    <3> QED
      BY <2>2, <3>1 DEF Lanes
  <2> QED
    BY <1>41, <2>1, <2>2, Zenon DEF StartClean, End
<1>42. CASE Signal
  BY <1>U, <1>42 DEF Signal, Exit
<1>43. CASE Kill
  BY <1>R, <1>43 DEF Kill, Fault, Lanes, Making, Unmounting, Idle
<1>44. CASE Guest
  BY <1>R, <1>44 DEF Guest, Lanes, Making, Unmounting, Idle
<1>45. CASE GuestLeaves
  BY <1>R, <1>45 DEF GuestLeaves, Lanes, Making, Unmounting, Idle
<1>46. CASE Finished
  BY <1>R, <1>46 DEF Finished, vars, Lanes, Making, Unmounting, Idle
<1>47. CASE UNCHANGED vars
  BY <1>R, <1>47 DEF Lanes, Making, Unmounting, Idle, vars
<1> QED
  BY <1>1, <1>2, <1>3, <1>4, <1>5, <1>6, <1>7, <1>8, <1>9, <1>10, <1>11, <1>12, <1>13,
     <1>14, <1>15, <1>16, <1>17, <1>18, <1>19, <1>20, <1>21, <1>22, <1>23, <1>24, <1>25,
     <1>26, <1>27, <1>28, <1>29, <1>30, <1>31, <1>32, <1>33, <1>34, <1>35, <1>36, <1>37,
     <1>38, <1>39, <1>40, <1>41, <1>42, <1>43, <1>44, <1>45, <1>46, <1>47  DEF Next,
     Step, Opening, Closing, Cleaning, Fixing


(* What may change each part of the state.                                 *)
LEMMA Touched ==
  ASSUME [Next]_vars
  PROVE  /\ UNCHANGED <<running, ext4>>
         /\ UNCHANGED <<pool, zvols>> \/ Import \/ BootPool \/ Export \/ FixExport
         /\ UNCHANGED mapper \/ KsOpen \/ KsMount \/ KsClose \/ CleanClose
         /\ UNCHANGED stack \/ KsMount \/ KsUmount \/ CleanKs
         /\ \/ UNCHANGED mnt \/ Root \/ TrackBoot \/ CleanUp \/ Export \/ FixExport
            \/ Tree \/ CleanTrees
         /\ \/ UNCHANGED bound \/ BootExt4 \/ Last \/ CleanUp \/ Tree \/ CleanTrees \/ Guest
         /\ UNCHANGED wiped \/ Judge
         /\ UNCHANGED landed \/ Root
         /\ UNCHANGED rmp \/ FixSet
         /\ UNCHANGED inherits \/ FixOff
         /\ UNCHANGED inhibit \/ CleanInhibit \/ FixInhibit \/ FixRestore
         /\ \/ said' \in {said, ""} \/ Leave \/ Cleaned \/ Judge \/ CleanJudge \/ FixRestore
            \/ StartClean
<1> USE DEF system, held, props
<1>1. CASE Import
  BY <1>1, Zenon DEF Import, Imported
<1>2. CASE Track
  BY <1>2, Zenon DEF Track
<1>3. CASE KsOpen
  BY <1>3, Zenon DEF KsOpen
<1>4. CASE KsMount
  BY <1>4, Zenon DEF KsMount
<1>5. CASE KsKey
  BY <1>5, Zenon DEF KsKey
<1>6. CASE TrackKs
  BY <1>6, Zenon DEF TrackKs
<1>7. CASE Root
  BY <1>7, Zenon DEF Root
<1>8. CASE BootExt4
  BY <1>8, Zenon DEF BootExt4
<1>9. CASE BootPool
  BY <1>9, Zenon DEF BootPool, Imported
<1>10. CASE TrackBoot
  BY <1>10, Zenon DEF TrackBoot
<1>11. CASE Last
  BY <1>11, Zenon DEF Last
<1>12. CASE Leave
  BY <1>12, Zenon DEF Leave
<1>13. CASE CleanUp
  BY <1>13, Zenon DEF CleanUp
<1>14. CASE Attach
  BY <1>14, Zenon DEF Attach
<1>15. CASE KsUmount
  BY <1>15, Zenon DEF KsUmount
<1>16. CASE KsClose
  BY <1>16, Zenon DEF KsClose
<1>17. CASE Export
  BY <1>17, Zenon DEF Export, Gone
<1>18. CASE Exported
  BY <1>18, Zenon DEF Exported
<1>19. CASE Elsewhere
  BY <1>19, Zenon DEF Elsewhere
<1>20. CASE Again
  BY <1>20, Zenon DEF Again
<1>21. CASE Cleaned
  BY <1>21, Zenon DEF Cleaned
<1>22. CASE Tree
  BY <1>22, Zenon DEF Tree, UnmountTree
<1>23. CASE Judge
  BY <1>23, Zenon DEF Judge
<1>24. CASE CleanTrees
  BY <1>24, Zenon DEF CleanTrees, UnmountTree
<1>25. CASE CleanKs
  BY <1>25, Zenon DEF CleanKs
<1>26. CASE CleanClose
  BY <1>26, Zenon DEF CleanClose
<1>27. CASE CleanInhibit
  BY <1>27, Zenon DEF CleanInhibit
<1>28. CASE CleanJudge
  BY <1>28, Zenon DEF CleanJudge
<1>29. CASE FixInhibit
  BY <1>29, Zenon DEF FixInhibit
<1>30. CASE FixCheck
  BY <1>30, Zenon DEF FixCheck
<1>31. CASE FixOff
  BY <1>31, Zenon DEF FixOff
<1>32. CASE FixSet
  BY <1>32, Zenon DEF FixSet
<1>33. CASE FixExport
  BY <1>33, Zenon DEF FixExport, Gone
<1>34. CASE FixRestore
  BY <1>34, Zenon DEF FixRestore
<1>35. CASE Shell
  BY <1>35, Zenon DEF Shell
<1>36. CASE StartMount
  BY <1>36, Zenon DEF StartMount, Start
<1>37. CASE StartLocal
  BY <1>37, Zenon DEF StartLocal, Start
<1>38. CASE StartUmount
  BY <1>38, Zenon DEF StartUmount, Start
<1>39. CASE StartUmountLocal
  BY <1>39, Zenon DEF StartUmountLocal, Start
<1>40. CASE StartFix
  BY <1>40, Zenon DEF StartFix, Start
<1>41. CASE StartClean
  BY <1>41, Zenon DEF StartClean
<1>42. CASE Signal
  BY <1>42, Zenon DEF Signal
<1>43. CASE Kill
  BY <1>43, Zenon DEF Kill
<1>44. CASE Guest
  BY <1>44, Zenon DEF Guest
<1>45. CASE GuestLeaves
  BY <1>45, Zenon DEF GuestLeaves
<1>46. CASE Finished
  BY <1>46, Zenon DEF Finished, vars
<1>50. CASE UNCHANGED vars
  BY <1>50, Zenon DEF vars
<1> QED
  BY <1>1, <1>2, <1>3, <1>4, <1>5, <1>6, <1>7, <1>8, <1>9, <1>10, <1>11, <1>12, <1>13,
     <1>14, <1>15, <1>16, <1>17, <1>18, <1>19, <1>20, <1>21, <1>22, <1>23, <1>24, <1>25,
     <1>26, <1>27, <1>28, <1>29, <1>30, <1>31, <1>32, <1>33, <1>34, <1>35, <1>36, <1>37,
     <1>38, <1>39, <1>40, <1>41, <1>42, <1>43, <1>44, <1>45, <1>46, <1>50, Zenon  DEF
     Next, Step, Opening, Closing, Cleaning, Fixing


(* A command that goes on keeps what it was started for, and the steps of  *)
(* one that unwinds are Cleanup's or the finally's.                        *)
Goes ==
  /\ run'.cmd = run.cmd /\ run'.pool = run.pool /\ run'.inv = run.inv
  /\ run'.ending = "no" => run.ending = "no"

LEMMA Steps ==
  ASSUME TypeOK, [Next]_vars, run'.cmd # "none"
  PROVE  \/ /\ UNCHANGED run
            /\ UNCHANGED <<pool, zvols, mapper, stack, mnt, inhibit, rmp>>
         \/ StartMount \/ StartLocal \/ StartUmount \/ StartUmountLocal \/ StartFix
         \/ StartClean
         \/ Step /\ Goes
         \/ /\ Goes /\ run'.pc \in {"cleanup", "fix export"}
            /\ run'.pools = run.pools /\ run'.stuck = run.stuck
<1> DEFINE Out == /\ Goes /\ run'.pc \in {"cleanup", "fix export"}
                  /\ run'.pools = run.pools /\ run'.stuck = run.stuck
<1>R. run \in RunType
  BY DEF TypeOK
<1>I. Idle.cmd = "none"
  BY DEF Idle
<1>U. /\ run' = Unwound => Out
      /\ \A f \in BOOLEAN : run' = [Unwound EXCEPT !.fixed = f] => Out
  <2>1. CASE run.cmd = "fix"
    BY <1>R, <2>1 DEF RunType, Unwound, Goes
  <2>2. CASE run.cmd \in {"mount", "local", "chroot"}
    <3>1. Unwound = [run EXCEPT !.pc = "cleanup", !.ending = "exit"]
      BY <2>2 DEF Unwound
    <3>2. ASSUME NEW f \in BOOLEAN,
                 run' = [run EXCEPT !.pc = "cleanup", !.ending = "exit", !.fixed = f]
          PROVE  Out
      BY <1>R, <3>2 DEF RunType, Goes
    <3>3. ASSUME NEW f \in BOOLEAN
          PROVE  [Unwound EXCEPT !.fixed = f]
                   = [run EXCEPT !.pc = "cleanup", !.ending = "exit", !.fixed = f]
      BY <3>1, Zenon
    <3>4. run' = Unwound => Out
      BY <1>R, <3>1 DEF RunType, Goes
    <3> QED
      BY <3>2, <3>3, <3>4
  <2>3. CASE run.cmd \notin {"fix", "mount", "local", "chroot"}
    <3>1. Unwound = Idle
      BY <2>3 DEF Unwound
    <3>2. \A f \in BOOLEAN : [Unwound EXCEPT !.fixed = f].cmd = "none"
      BY <3>1 DEF Idle
    <3> QED
      BY <3>1, <3>2, <1>I
  <2> QED
    BY <2>1, <2>2, <2>3
<1> HIDE DEF Out
<1>1. ASSUME Import PROVE Goes \/ Out
  BY <1>R, <1>1, <1>U DEF Import, Go, Exit, RunType, Goes
<1>2. ASSUME Track PROVE Goes
  BY <1>R, <1>2 DEF Track, RunType, Goes
<1>3. ASSUME KsOpen PROVE Goes \/ Out
  BY <1>R, <1>3, <1>U DEF KsOpen, Go, Exit, RunType, Goes
<1>4. ASSUME KsMount PROVE Goes \/ Out
  BY <1>R, <1>4, <1>U DEF KsMount, Go, Exit, RunType, Goes
<1>5. ASSUME KsKey PROVE Goes \/ Out
  BY <1>R, <1>5, <1>U DEF KsKey, Exit, RunType, Goes
<1>6. ASSUME TrackKs PROVE Goes
  BY <1>R, <1>6 DEF TrackKs, RunType, Goes
<1>7. ASSUME Root PROVE Goes \/ Out
  BY <1>R, <1>7, <1>U DEF Root, Exit, RunType, Goes
<1>8. ASSUME BootExt4 PROVE Goes
  BY <1>R, <1>8 DEF BootExt4, Go, RunType, Goes
<1>9. ASSUME BootPool PROVE Goes
  BY <1>R, <1>9 DEF BootPool, Go, RunType, Goes
<1>10. ASSUME TrackBoot PROVE Goes
  BY <1>R, <1>10 DEF TrackBoot, RunType, Goes
<1>11. ASSUME Last PROVE Goes
  BY <1>R, <1>11 DEF Last, Go, RunType, Goes
<1>12. ASSUME Leave PROVE FALSE
  BY <1>12, <1>I DEF Leave, End
<1>13. ASSUME CleanUp PROVE Goes
  BY <1>R, <1>13 DEF CleanUp, Go, RunType, Goes
<1>14. ASSUME Attach PROVE Goes
  BY <1>R, <1>14 DEF Attach, RunType, Goes
<1>15. ASSUME KsUmount PROVE Goes
  BY <1>R, <1>15 DEF KsUmount, Go, AfterKs, RunType, Goes
<1>16. ASSUME KsClose PROVE Goes
  BY <1>R, <1>16 DEF KsClose, AfterKs, RunType, Goes
<1>17. ASSUME Export PROVE Goes
  BY <1>R, <1>17 DEF Export, RunType, Goes
<1>18. ASSUME Exported PROVE Goes
  BY <1>R, <1>18 DEF Exported, Go, RunType, Goes
<1>19. ASSUME Elsewhere PROVE Goes
  BY <1>R, <1>19 DEF Elsewhere, RunType, Goes
<1>20. ASSUME Again PROVE Goes
  BY <1>R, <1>20 DEF Again, Go, RunType, Goes
<1>21. ASSUME Cleaned PROVE FALSE
  BY <1>21, <1>I DEF Cleaned, End
<1>22. ASSUME Tree PROVE Goes
  BY <1>R, <1>22 DEF Tree, Go, RunType, Goes
<1>23. ASSUME Judge PROVE FALSE
  BY <1>23, <1>I DEF Judge, End
<1>24. ASSUME CleanTrees PROVE Goes
  BY <1>R, <1>24 DEF CleanTrees, Go, RunType, Goes
<1>25. ASSUME CleanKs PROVE Goes
  BY <1>R, <1>25 DEF CleanKs, Go, RunType, Goes
<1>26. ASSUME CleanClose PROVE Goes
  BY <1>R, <1>26 DEF CleanClose, Go, RunType, Goes
<1>27. ASSUME CleanInhibit PROVE Goes
  BY <1>R, <1>27 DEF CleanInhibit, Go, RunType, Goes
<1>28. ASSUME CleanJudge PROVE FALSE
  BY <1>28, <1>I DEF CleanJudge, End
<1>29. ASSUME FixInhibit PROVE Goes
  BY <1>R, <1>29 DEF FixInhibit, Go, RunType, Goes
<1>30. ASSUME FixCheck PROVE Goes \/ Out
  BY <1>R, <1>30, <1>U DEF FixCheck, Go, Exit, RunType, Goes
<1>31. ASSUME FixOff PROVE Goes \/ Out
  BY <1>R, <1>31, <1>U DEF FixOff, Go, Exit, RunType, Goes
<1>32. ASSUME FixSet PROVE Goes \/ Out
  BY <1>R, <1>32, <1>U DEF FixSet, Exit, RunType, Goes
<1>33. ASSUME FixExport PROVE Goes
  BY <1>R, <1>33 DEF FixExport, Go, RunType, Goes
<1>34. ASSUME FixRestore PROVE FALSE
  BY <1>34, <1>I DEF FixRestore, End
<1>35. ASSUME Shell PROVE Goes
  BY <1>R, <1>35 DEF Shell, RunType, Goes
<1>36. ASSUME Signal PROVE Out
  BY <1>R, <1>36, <1>U DEF Signal, Exit
<1>37. ASSUME Kill PROVE FALSE
  BY <1>37, <1>I DEF Kill
<1>50. Step => Goes \/ Out
  BY <1>1, <1>2, <1>3, <1>4, <1>5, <1>6, <1>7, <1>8, <1>9, <1>10, <1>11, <1>12, <1>13,
     <1>14, <1>15, <1>16, <1>17, <1>18, <1>19, <1>20, <1>21, <1>22, <1>23, <1>24, <1>25,
     <1>26, <1>27, <1>28, <1>29, <1>30, <1>31, <1>32, <1>33, <1>34, <1>35  DEF Step,
     Opening, Closing, Cleaning, Fixing
<1>51. UNCHANGED vars \/ Guest \/ GuestLeaves \/ Finished =>
        /\ UNCHANGED run
        /\ UNCHANGED <<pool, zvols, mapper, stack, mnt, inhibit, rmp>>
  BY DEF Guest, GuestLeaves, Finished, vars, held, props
<1> QED
  BY <1>50, <1>51, <1>36, <1>37 DEF Next, Out


(* Where each step starts.                                                 *)
LEMMA Places ==
  ASSUME Step
  PROVE  /\ run.cmd # "none"
         /\ \/ Import /\ run.pc = "import"
            \/ Track /\ run.pc = "track"
            \/ KsOpen /\ run.pc = "open"
            \/ KsMount /\ run.pc = "ksmount"
            \/ KsKey /\ run.pc = "key"
            \/ TrackKs /\ run.pc = "track ks"
            \/ Root /\ run.pc = "root"
            \/ BootExt4 /\ run.pc = "boot"
            \/ BootPool /\ run.pc = "boot"
            \/ TrackBoot /\ run.pc = "track boot"
            \/ Last /\ run.pc = "last"
            \/ Leave /\ run.pc = "leave"
            \/ CleanUp /\ run.pc = "cleanup"
            \/ Attach /\ run.pc = "attach"
            \/ KsUmount /\ run.pc = "ksumount"
            \/ KsClose /\ run.pc = "ksclose"
            \/ Export /\ run.pc \in {"export", "again"}
            \/ Exported /\ run.pc = "export"
            \/ Elsewhere /\ run.pc = "elsewhere"
            \/ Again /\ run.pc = "again"
            \/ Cleaned /\ run.pc = "export"
            \/ Tree /\ run.pc = "tree"
            \/ Judge /\ run.pc = "judge"
            \/ CleanTrees /\ run.pc = "clean trees"
            \/ CleanKs /\ run.pc = "clean ks"
            \/ CleanClose /\ run.pc = "clean close"
            \/ CleanInhibit /\ run.pc = "clean inhibit"
            \/ CleanJudge /\ run.pc = "clean judge"
            \/ FixInhibit /\ run.pc = "inhibit"
            \/ FixCheck /\ run.pc = "fix check"
            \/ FixOff /\ run.pc = "fix off"
            \/ FixSet /\ run.pc = "fix set"
            \/ FixExport /\ run.pc = "fix export"
            \/ FixRestore /\ run.pc = "fix restore"
            \/ Shell /\ run.pc = "shell"
<1>1. Import => run.cmd # "none" /\ run.pc = "import"
  BY DEF Import, At
<1>2. Track => run.cmd # "none" /\ run.pc = "track"
  BY DEF Track, At
<1>3. KsOpen => run.cmd # "none" /\ run.pc = "open"
  BY DEF KsOpen, At
<1>4. KsMount => run.cmd # "none" /\ run.pc = "ksmount"
  BY DEF KsMount, At
<1>5. KsKey => run.cmd # "none" /\ run.pc = "key"
  BY DEF KsKey, At
<1>6. TrackKs => run.cmd # "none" /\ run.pc = "track ks"
  BY DEF TrackKs, At
<1>7. Root => run.cmd # "none" /\ run.pc = "root"
  BY DEF Root, At
<1>8. BootExt4 => run.cmd # "none" /\ run.pc = "boot"
  BY DEF BootExt4, At
<1>9. BootPool => run.cmd # "none" /\ run.pc = "boot"
  BY DEF BootPool, At
<1>10. TrackBoot => run.cmd # "none" /\ run.pc = "track boot"
  BY DEF TrackBoot, At
<1>11. Last => run.cmd # "none" /\ run.pc = "last"
  BY DEF Last, At
<1>12. Leave => run.cmd # "none" /\ run.pc = "leave"
  BY DEF Leave, At
<1>13. CleanUp => run.cmd # "none" /\ run.pc = "cleanup"
  BY DEF CleanUp, At
<1>14. Attach => run.cmd # "none" /\ run.pc = "attach"
  BY DEF Attach, At
<1>15. KsUmount => run.cmd # "none" /\ run.pc = "ksumount"
  BY DEF KsUmount, At
<1>16. KsClose => run.cmd # "none" /\ run.pc = "ksclose"
  BY DEF KsClose, At
<1>17. Export => run.cmd # "none" /\ run.pc \in {"export", "again"}
  BY DEF Export, At
<1>18. Exported => run.cmd # "none" /\ run.pc = "export"
  BY DEF Exported, At
<1>19. Elsewhere => run.cmd # "none" /\ run.pc = "elsewhere"
  BY DEF Elsewhere, At
<1>20. Again => run.cmd # "none" /\ run.pc = "again"
  BY DEF Again, At
<1>21. Cleaned => run.cmd # "none" /\ run.pc = "export"
  BY DEF Cleaned, At
<1>22. Tree => run.cmd # "none" /\ run.pc = "tree"
  BY DEF Tree, At
<1>23. Judge => run.cmd # "none" /\ run.pc = "judge"
  BY DEF Judge, At
<1>24. CleanTrees => run.cmd # "none" /\ run.pc = "clean trees"
  BY DEF CleanTrees, At
<1>25. CleanKs => run.cmd # "none" /\ run.pc = "clean ks"
  BY DEF CleanKs, At
<1>26. CleanClose => run.cmd # "none" /\ run.pc = "clean close"
  BY DEF CleanClose, At
<1>27. CleanInhibit => run.cmd # "none" /\ run.pc = "clean inhibit"
  BY DEF CleanInhibit, At
<1>28. CleanJudge => run.cmd # "none" /\ run.pc = "clean judge"
  BY DEF CleanJudge, At
<1>29. FixInhibit => run.cmd # "none" /\ run.pc = "inhibit"
  BY DEF FixInhibit, At
<1>30. FixCheck => run.cmd # "none" /\ run.pc = "fix check"
  BY DEF FixCheck, At
<1>31. FixOff => run.cmd # "none" /\ run.pc = "fix off"
  BY DEF FixOff, At
<1>32. FixSet => run.cmd # "none" /\ run.pc = "fix set"
  BY DEF FixSet, At
<1>33. FixExport => run.cmd # "none" /\ run.pc = "fix export"
  BY DEF FixExport, At
<1>34. FixRestore => run.cmd # "none" /\ run.pc = "fix restore"
  BY DEF FixRestore, At
<1>35. Shell => run.cmd # "none" /\ run.pc = "shell"
  BY DEF Shell, At
<1> QED
  BY <1>1, <1>2, <1>3, <1>4, <1>5, <1>6, <1>7, <1>8, <1>9, <1>10, <1>11, <1>12, <1>13,
     <1>14, <1>15, <1>16, <1>17, <1>18, <1>19, <1>20, <1>21, <1>22, <1>23, <1>24, <1>25,
     <1>26, <1>27, <1>28, <1>29, <1>30, <1>31, <1>32, <1>33, <1>34, <1>35  DEF Step,
     Opening, Closing, Cleaning, Fixing

(* Whose steps these are.                                                  *)
LEMMA Lane ==
  ASSUME TypeOK, Lanes, run.cmd # "none"
  PROVE  /\ run.pc = "import" => run.cmd \in {"mount", "local", "chroot", "fix"}
         /\ run.pc \in {"track", "open", "ksmount", "key", "root", "leave"} =>
              run.cmd \in {"mount", "local", "chroot"}
         /\ run.pc \in {"track ks", "boot", "track boot", "last", "shell"} =>
              run.cmd \in {"local", "chroot"}
         /\ run.pc \in {"import", "track", "open", "ksmount", "key", "root", "leave", "track ks",
                        "boot", "track boot", "last", "shell"} => run.ending = "no"
         /\ run.pc = "cleanup" => run.cmd \in {"mount", "local", "chroot"} /\ run.ending # "no"
         /\ run.pc \in {"tree", "attach", "judge"} => run.cmd \in {"umount", "umount local"}
         /\ run.pc \in {"ksumount", "ksclose"} =>
              run.cmd \in {"mount", "local", "chroot", "umount", "umount local"}
         /\ run.pc \in {"export", "elsewhere", "again"} => run.cmd # "fix"
         /\ run.pc \in {"elsewhere", "again", "judge"} =>
              run.cmd \in {"umount", "umount local", "clean"}
         /\ run.pc \in {"clean trees", "clean ks", "clean close", "clean inhibit", "clean judge"} =>
              run.cmd = "clean"
         /\ run.pc \in {"inhibit", "fix check", "fix off", "fix set", "fix export", "fix restore"} =>
              run.cmd = "fix"
<1>1. run.cmd \in Commands
  BY Zenon DEF TypeOK, RunType
<1> QED
  BY <1>1 DEF Lanes, Making, Unmounting, Commands

(* Where each step leads.                                                  *)
LEMMA Moves ==
  ASSUME TypeOK, Lanes, Step, run'.cmd # "none"
  PROVE  \/ Import /\ run.pc = "import" /\ run'.pc \in {"track", "fix check", "cleanup", "fix export"}
         \/ Track /\ run.pc = "track" /\ run'.pc = "open"
         \/ KsOpen /\ run.pc = "open" /\ run'.pc \in {"ksmount", "cleanup"}
         \/ KsMount /\ run.pc = "ksmount" /\ run'.pc \in {"key", "cleanup"}
         \/ KsKey /\ run.pc = "key" /\ run'.pc \in {"ksumount", "track ks", "cleanup"}
         \/ TrackKs /\ run.pc = "track ks" /\ run'.pc = "root"
         \/ Root /\ run.pc = "root" /\ run'.pc \in {"leave", "boot", "cleanup"}
         \/ BootExt4 /\ run.pc = "boot" /\ run'.pc = "last"
         \/ BootPool /\ run.pc = "boot" /\ run'.pc \in {"track boot", "last"}
         \/ TrackBoot /\ run.pc = "track boot" /\ run'.pc = "last"
         \/ Last /\ run.pc = "last" /\ run'.pc \in {"leave", "shell"}
         \/ CleanUp /\ run.pc = "cleanup" /\ run'.pc \in {"ksumount", "export"}
         \/ Attach /\ run.pc = "attach" /\ run'.pc = "ksumount"
         \/ KsUmount /\ run.pc = "ksumount" /\ run'.pc \in {"root", "export", "ksclose"}
         \/ KsClose /\ run.pc = "ksclose" /\ run'.pc \in {"root", "export"}
         \/ Export /\ run.pc \in {"export", "again"} /\ run'.pc \in {"export", "again"}
         \/ Exported /\ run.pc = "export" /\ run'.pc \in {"elsewhere", "clean inhibit", "judge"}
         \/ Elsewhere /\ run.pc = "elsewhere" /\ run'.pc = "again"
         \/ Again /\ run.pc = "again" /\ run'.pc \in {"clean inhibit", "judge"}
         \/ Tree /\ run.pc = "tree" /\ run'.pc = "attach"
         \/ CleanTrees /\ run.pc = "clean trees" /\ run'.pc = "clean ks"
         \/ CleanKs /\ run.pc = "clean ks" /\ run'.pc = "clean close"
         \/ CleanClose /\ run.pc = "clean close" /\ run'.pc = "export"
         \/ CleanInhibit /\ run.pc = "clean inhibit" /\ run'.pc = "clean judge"
         \/ FixInhibit /\ run.pc = "inhibit" /\ run'.pc = "import"
         \/ FixCheck /\ run.pc = "fix check" /\ run'.pc \in {"fix off", "fix set", "fix export"}
         \/ FixOff /\ run.pc = "fix off" /\ run'.pc \in {"fix set", "fix export"}
         \/ FixSet /\ run.pc = "fix set" /\ run'.pc = "fix export"
         \/ FixExport /\ run.pc = "fix export" /\ run'.pc = "fix restore"
         \/ Shell /\ run.pc = "shell" /\ run'.pc = "cleanup"
<1>R. run \in RunType
  BY DEF TypeOK
<1>I. Idle.cmd = "none"
  BY DEF Idle
<1>1. Import => run.pc = "import" /\ run'.pc \in {"track", "fix check", "cleanup", "fix export"}
  BY <1>R, <1>I, Lane DEF Import, At, Go, Exit, Unwound, RunType
<1>2. Track => run.pc = "track" /\ run'.pc = "open"
  BY <1>R DEF Track, At, RunType
<1>3. KsOpen => run.pc = "open" /\ run'.pc \in {"ksmount", "cleanup"}
  BY <1>R, <1>I, Lane DEF KsOpen, At, Go, Exit, Unwound, RunType
<1>4. KsMount => run.pc = "ksmount" /\ run'.pc \in {"key", "cleanup"}
  BY <1>R, <1>I, Lane DEF KsMount, At, Go, Exit, Unwound, RunType
<1>5. KsKey => run.pc = "key" /\ run'.pc \in {"ksumount", "track ks", "cleanup"}
  BY <1>R, <1>I, Lane DEF KsKey, At, Exit, Unwound, RunType
<1>6. TrackKs => run.pc = "track ks" /\ run'.pc = "root"
  BY <1>R DEF TrackKs, At, RunType
<1>7. Root => run.pc = "root" /\ run'.pc \in {"leave", "boot", "cleanup"}
  BY <1>R, <1>I, Lane DEF Root, At, Exit, Unwound, RunType
<1>8. BootExt4 => run.pc = "boot" /\ run'.pc = "last"
  BY <1>R DEF BootExt4, At, Go, RunType
<1>9. BootPool => run.pc = "boot" /\ run'.pc \in {"track boot", "last"}
  BY <1>R DEF BootPool, At, Go, RunType
<1>10. TrackBoot => run.pc = "track boot" /\ run'.pc = "last"
  BY <1>R DEF TrackBoot, At, RunType
<1>11. Last => run.pc = "last" /\ run'.pc \in {"leave", "shell"}
  BY <1>R DEF Last, At, Go, RunType
<1>12. ~Leave
  BY <1>I DEF Leave, End
<1>13. CleanUp => run.pc = "cleanup" /\ run'.pc \in {"ksumount", "export"}
  BY <1>R DEF CleanUp, At, Go, RunType
<1>14. Attach => run.pc = "attach" /\ run'.pc = "ksumount"
  BY <1>R DEF Attach, At, RunType
<1>15. KsUmount => run.pc = "ksumount" /\ run'.pc \in {"root", "export", "ksclose"}
  BY <1>R DEF KsUmount, At, Go, AfterKs, RunType
<1>16. KsClose => run.pc = "ksclose" /\ run'.pc \in {"root", "export"}
  BY <1>R DEF KsClose, At, AfterKs, RunType
<1>17. Export => run.pc \in {"export", "again"} /\ run'.pc \in {"export", "again"}
  BY <1>R DEF Export, At, RunType
<1>18. Exported => run.pc = "export" /\ run'.pc \in {"elsewhere", "clean inhibit", "judge"}
  BY <1>R DEF Exported, At, Go, RunType
<1>19. Elsewhere => run.pc = "elsewhere" /\ run'.pc = "again"
  BY <1>R DEF Elsewhere, At, RunType
<1>20. Again => run.pc = "again" /\ run'.pc \in {"clean inhibit", "judge"}
  BY <1>R DEF Again, At, Go, RunType
<1>21. ~Cleaned
  BY <1>I DEF Cleaned, End
<1>22. Tree => run.pc = "tree" /\ run'.pc = "attach"
  BY <1>R DEF Tree, At, Go, RunType
<1>23. ~Judge
  BY <1>I DEF Judge, End
<1>24. CleanTrees => run.pc = "clean trees" /\ run'.pc = "clean ks"
  BY <1>R DEF CleanTrees, At, Go, RunType
<1>25. CleanKs => run.pc = "clean ks" /\ run'.pc = "clean close"
  BY <1>R DEF CleanKs, At, Go, RunType
<1>26. CleanClose => run.pc = "clean close" /\ run'.pc = "export"
  BY <1>R DEF CleanClose, At, Go, RunType
<1>27. CleanInhibit => run.pc = "clean inhibit" /\ run'.pc = "clean judge"
  BY <1>R DEF CleanInhibit, At, Go, RunType
<1>28. ~CleanJudge
  BY <1>I DEF CleanJudge, End
<1>29. FixInhibit => run.pc = "inhibit" /\ run'.pc = "import"
  BY <1>R DEF FixInhibit, At, Go, RunType
<1>30. ASSUME FixCheck PROVE run.pc = "fix check" /\ run'.pc \in {"fix off", "fix set", "fix export"}
  <2>1. Unwound = [run EXCEPT !.pc = "fix export"]
    BY <1>30, Lane DEF FixCheck, At, Unwound
  <2>2. \/ run' = [run EXCEPT !.pc = "fix off"]
        \/ run' = [run EXCEPT !.pc = "fix set"]
        \/ run' = [Unwound EXCEPT !.fixed = zvols = {}]
        \/ run' = Unwound
    BY <1>30, Zenon DEF FixCheck, Go, Exit
  <2> QED
    BY <1>R, <1>30, <2>1, <2>2 DEF FixCheck, At, RunType
<1>31. ASSUME FixOff PROVE run.pc = "fix off" /\ run'.pc \in {"fix set", "fix export"}
  <2>1. Unwound = [run EXCEPT !.pc = "fix export"]
    BY <1>31, Lane DEF FixOff, At, Unwound
  <2>2. \/ run' = [run EXCEPT !.pc = "fix set"]
        \/ run' = Unwound
    BY <1>31, Zenon DEF FixOff, Go, Exit
  <2> QED
    BY <1>R, <1>31, <2>1, <2>2 DEF FixOff, At, RunType
<1>32. ASSUME FixSet PROVE run.pc = "fix set" /\ run'.pc = "fix export"
  <2>1. Unwound = [run EXCEPT !.pc = "fix export"]
    BY <1>32, Lane DEF FixSet, At, Unwound
  <2>2. \/ run' = [Unwound EXCEPT !.fixed = TRUE]
        \/ run' = Unwound
    BY <1>32, Zenon DEF FixSet, Exit
  <2> QED
    BY <1>R, <1>32, <2>1, <2>2 DEF FixSet, At, RunType
<1>33. FixExport => run.pc = "fix export" /\ run'.pc = "fix restore"
  BY <1>R DEF FixExport, At, Go, RunType
<1>34. ~FixRestore
  BY <1>I DEF FixRestore, End
<1>35. Shell => run.pc = "shell" /\ run'.pc = "cleanup"
  BY <1>R DEF Shell, At, RunType
<1>36. CASE Opening
  <2>1. CASE Import
    BY <1>1, <2>1
  <2>2. CASE Track
    BY <1>2, <2>2
  <2>3. CASE KsOpen
    BY <1>3, <2>3
  <2>4. CASE KsMount
    BY <1>4, <2>4
  <2>5. CASE KsKey
    BY <1>5, <2>5
  <2>6. CASE TrackKs
    BY <1>6, <2>6
  <2>7. CASE Root
    BY <1>7, <2>7
  <2>8. CASE BootExt4
    BY <1>8, <2>8
  <2>9. CASE BootPool
    BY <1>9, <2>9
  <2>10. CASE TrackBoot
    BY <1>10, <2>10
  <2>11. CASE Last
    BY <1>11, <2>11
  <2>12. CASE Leave
    BY <1>12, <2>12
  <2> QED
    BY <1>36, <2>1, <2>2, <2>3, <2>4, <2>5, <2>6, <2>7, <2>8, <2>9, <2>10, <2>11, <2>12,
       Zenon DEF Opening
<1>37. CASE Closing
  <2>1. CASE CleanUp
    BY <1>13, <2>1
  <2>2. CASE Attach
    BY <1>14, <2>2
  <2>3. CASE KsUmount
    BY <1>15, <2>3
  <2>4. CASE KsClose
    BY <1>16, <2>4
  <2>5. CASE Export
    BY <1>17, <2>5
  <2>6. CASE Exported
    BY <1>18, <2>6
  <2>7. CASE Elsewhere
    BY <1>19, <2>7
  <2>8. CASE Again
    BY <1>20, <2>8
  <2>9. CASE Cleaned
    BY <1>21, <2>9
  <2>10. CASE Tree
    BY <1>22, <2>10
  <2>11. CASE Judge
    BY <1>23, <2>11
  <2> QED
    BY <1>37, <2>1, <2>2, <2>3, <2>4, <2>5, <2>6, <2>7, <2>8, <2>9, <2>10, <2>11, Zenon
       DEF Closing
<1>38. CASE Cleaning
  <2>1. CASE CleanTrees
    BY <1>24, <2>1
  <2>2. CASE CleanKs
    BY <1>25, <2>2
  <2>3. CASE CleanClose
    BY <1>26, <2>3
  <2>4. CASE CleanInhibit
    BY <1>27, <2>4
  <2>5. CASE CleanJudge
    BY <1>28, <2>5
  <2> QED
    BY <1>38, <2>1, <2>2, <2>3, <2>4, <2>5, Zenon DEF Cleaning
<1>39. CASE Fixing
  <2>1. CASE FixInhibit
    BY <1>29, <2>1
  <2>2. CASE FixCheck
    BY <1>30, <2>2
  <2>3. CASE FixOff
    BY <1>31, <2>3
  <2>4. CASE FixSet
    BY <1>32, <2>4
  <2>5. CASE FixExport
    BY <1>33, <2>5
  <2>6. CASE FixRestore
    BY <1>34, <2>6
  <2> QED
    BY <1>39, <2>1, <2>2, <2>3, <2>4, <2>5, <2>6, Zenon DEF Fixing
<1>40. CASE Shell
  BY <1>40, <1>35
<1> QED
  BY <1>36, <1>37, <1>38, <1>39, <1>40, Zenon DEF Step

(* What each command starts with.                                          *)
LEMMA Starts ==
         /\ StartMount => run'.cmd = "mount" /\ run'.pc = "import" /\ run'.pool = "backup"
         /\ StartLocal => /\ run'.cmd \in {"local", "chroot"} /\ run'.pc = "import"
                          /\ run'.pool = "rpool"
         /\ StartUmount => run'.cmd = "umount" /\ run'.pc = "tree"
         /\ StartUmountLocal => run'.cmd = "umount local" /\ run'.pc = "tree"
         /\ StartFix => run'.cmd = "fix" /\ run'.pc = "inhibit"
         /\ StartMount \/ StartLocal \/ StartUmount \/ StartUmountLocal \/ StartFix =>
              run'.pools = <<>> /\ run'.stuck = {}
         /\ StartClean =>
              \/ run' = Idle
              \/ /\ run'.cmd = "clean" /\ run'.pc = "clean trees" /\ run'.inv = Inventory
                 /\ run'.pools = InOrder(Zark) /\ run'.stuck = {}
<1>1. ASSUME StartMount
      PROVE  /\ run'.cmd = "mount" /\ run'.pc = "import" /\ run'.pool = "backup"
             /\ run'.pools = <<>> /\ run'.stuck = {}
  <2>1. run' = [[Idle EXCEPT !.pc = "import"] EXCEPT !.cmd = "mount"]
    BY <1>1, Zenon DEF StartMount, Start
  <2> QED
    BY <2>1 DEF Idle
<1>2. ASSUME StartLocal
      PROVE  /\ run'.cmd \in {"local", "chroot"} /\ run'.pc = "import"
             /\ run'.pool = "rpool" /\ run'.pools = <<>> /\ run'.stuck = {}
  <2>1. PICK cmd \in {"local", "chroot"} :
          run' = [[Idle EXCEPT !.pc = "import", !.pool = "rpool"] EXCEPT !.cmd = cmd]
    BY <1>2, Zenon DEF StartLocal, Start
  <2> QED
    BY <2>1 DEF Idle
<1>3. ASSUME StartUmount
      PROVE  run'.cmd = "umount" /\ run'.pc = "tree" /\ run'.pools = <<>> /\ run'.stuck = {}
  <2>1. run' = [[Idle EXCEPT !.pc = "tree"] EXCEPT !.cmd = "umount"]
    BY <1>3, Zenon DEF StartUmount, Start
  <2> QED
    BY <2>1 DEF Idle
<1>4. ASSUME StartUmountLocal
      PROVE  /\ run'.cmd = "umount local" /\ run'.pc = "tree"
             /\ run'.pools = <<>> /\ run'.stuck = {}
  <2>1. run' = [[Idle EXCEPT !.pc = "tree", !.pool = "rpool"] EXCEPT !.cmd = "umount local"]
    BY <1>4, Zenon DEF StartUmountLocal, Start
  <2> QED
    BY <2>1 DEF Idle
<1>5. ASSUME StartFix
      PROVE  run'.cmd = "fix" /\ run'.pc = "inhibit" /\ run'.pools = <<>> /\ run'.stuck = {}
  <2>1. \E b : run' = [[Idle EXCEPT !.pc = "inhibit", !.pool = "rpool", !.prev = b]
                       EXCEPT !.cmd = "fix"]
    BY <1>5, Zenon DEF StartFix, Start
  <2> QED
    BY <2>1 DEF Idle
<1>6. ASSUME StartClean, run' # Idle
      PROVE  /\ run'.cmd = "clean" /\ run'.pc = "clean trees" /\ run'.inv = Inventory
             /\ run'.pools = InOrder(Zark) /\ run'.stuck = {}
  <2>1. run' = [Idle EXCEPT !.cmd = "clean", !.pc = "clean trees",
                            !.inv = Inventory, !.pools = InOrder(Zark)]
    BY <1>6, Zenon DEF StartClean, End
  <2> QED
    BY <2>1, Zenon DEF Idle
<1> QED
  BY <1>1, <1>2, <1>3, <1>4, <1>5, <1>6

LEMMA LayersStep ==
  ASSUME TypeOK, Layers, Lanes, Visible, [Next]_vars
  PROVE  Layers'
<1> USE DEF system, held, props
<1>R. run \in RunType /\ run.pool \in Keyed
  BY Zenon DEF TypeOK, RunType
<1>I. Idle.cmd = "none" /\ Idle.pc = ""
  BY DEF Idle
<1>T. /\ pool \in [Pools -> {"out", "own", "zark", "alt"}] /\ mnt \subseteq Pools
      /\ mapper \subseteq zvols /\ zvols \subseteq Keyed
  BY DEF TypeOK
<1>L. /\ \A p \in Pools : p \in mnt \cup zvols => pool[p] # "out"
      /\ Items(stack) \ {"live"} \subseteq mapper
      /\ /\ run.cmd \in {"mount", "local", "chroot"} /\ run.ending = "no"
         /\ run.pc # "import"
         => pool[run.pool] # "out"
      /\ run.pc = "track boot" => pool["bpool"] # "out"
  BY DEF Layers, Stacked, Items
<1>1. \A p \in Pools : p \in (mnt \cup zvols)' => pool'[p] # "out"
  <2>1. CASE Import
    BY <1>T, <1>L, <2>1 DEF Import, Imported
  <2>2. CASE BootPool
    BY <1>T, <1>L, <2>2 DEF BootPool, Imported
  <2>3. CASE Export
    BY <1>T, <1>L, <2>3 DEF Export, Gone
  <2>4. CASE FixExport
    BY <1>T, <1>L, <2>4 DEF FixExport, Gone
  <2>5. CASE UNCHANGED <<pool, zvols>>
    <3>1. CASE Root
      <4>1. pool[run.pool] # "out"
        BY <1>L, <3>1, Lane DEF Root, At
      <4> QED
        BY <1>L, <2>5, <3>1, <4>1 DEF Root
    <3>2. CASE TrackBoot
      BY <1>L, <2>5, <3>2 DEF TrackBoot, At
    <3>3. CASE CleanUp
      BY <1>L, <2>5, <3>3 DEF CleanUp
    <3>4. CASE Tree \/ CleanTrees
      <4>1. mnt' \subseteq mnt
        BY <3>4 DEF Tree, CleanTrees, UnmountTree, Kept
      <4> QED
        BY <1>L, <2>5, <4>1
    <3>5. CASE Export \/ FixExport
      BY <2>3, <2>4, <3>5
    <3> QED
      BY <1>L, <2>5, <3>1, <3>2, <3>3, <3>4, <3>5, Touched
  <2> QED
    BY <2>1, <2>2, <2>3, <2>4, <2>5, Touched
<1>2. Items(stack') \ {"live"} \subseteq mapper'
  <2>1. CASE UNCHANGED stack
    <3>1. CASE KsOpen
      BY <1>L, <2>1, <3>1 DEF KsOpen
    <3>2. CASE KsMount
      <4>1. run.pool \notin Items(stack)
        BY <3>2, Lane DEF KsMount, At, Visible, Stacked, Items
      <4> QED
        BY <1>L, <2>1, <3>2, <4>1 DEF KsMount
    <3>3. CASE KsClose
      BY <1>L, <2>1, <3>3 DEF KsClose, Stacked, Items
    <3>4. CASE CleanClose
      BY <1>L, <2>1, <3>4 DEF CleanClose, Stacked, Items
    <3> QED
      BY <1>L, <2>1, <3>1, <3>2, <3>3, <3>4, Touched
  <2>2. CASE KsMount /\ stack' = Append(stack, run.pool) /\ UNCHANGED mapper
    <3>1. run.pool \in mapper
      BY <2>2, Lane DEF KsMount, At, Visible
    <3>2. Items(stack') = Items(stack) \cup {run.pool}
      BY <1>R, <2>2, ItemsAppend DEF TypeOK
    <3> QED
      BY <1>L, <2>2, <3>1, <3>2
  <2>3. CASE KsUmount \/ CleanKs
    <3>1. stack' = stack \/ stack' = Popped(stack)
      BY <2>3 DEF KsUmount, CleanKs, Popped
    <3>2. Items(Popped(stack)) \subseteq Items(stack)
      BY ItemsPopped DEF TypeOK
    <3>3. UNCHANGED mapper
      BY <2>3 DEF KsUmount, CleanKs
    <3> QED
      BY <1>L, <3>1, <3>2, <3>3
  <2> QED
    BY <2>1, <2>2, <2>3, Touched DEF KsMount
<1>3. ASSUME run'.cmd \in {"mount", "local", "chroot"}, run'.ending = "no",
             run'.pc # "import"
      PROVE  pool'[run'.pool] # "out"
  <2>1. run'.pc # "cleanup" /\ run'.pc # "fix export"
    BY <1>3, LanesStep, Zenon DEF Lanes, Making
  <2>2. UNCHANGED run \/ (Step /\ Goes)
    BY <1>3, <2>1, Steps, Starts, <1>I
  <2>3. run'.pool = run.pool /\ run.cmd = run'.cmd /\ run.ending = "no"
    BY <1>3, <2>2 DEF Goes
  <2>4. CASE run.pc # "import"
    <3>1. pool[run.pool] # "out"
      BY <1>L, <1>3, <2>3, <2>4
    <3>2. ~Import /\ ~Export /\ ~FixExport
      BY <1>3, <2>3, <2>4 DEF Import, Export, FixExport, At, Lanes, Making
    <3>3. CASE BootPool
      BY <1>T, <1>R, <2>3, <3>1, <3>3 DEF BootPool, Imported
    <3> QED
      BY <2>3, <3>1, <3>2, <3>3, Touched
  <2>5. CASE run.pc = "import"
    <3>1. Import
      BY <1>3, <2>2, <2>5, Places
    <3>2. Imported(run.pool) \/ run' = Unwound
      BY <3>1, Zenon DEF Import, Exit
    <3>3. run' # Unwound
      BY <1>R, <1>3, <2>1, <2>3 DEF Unwound, RunType
    <3> QED
      BY <1>T, <1>R, <2>3, <3>2, <3>3 DEF Imported
  <2> QED
    BY <2>4, <2>5
<1>4. ASSUME run'.pc = "track boot" PROVE pool'["bpool"] # "out"
  <2>1. run'.cmd # "none"
    BY <1>4, <1>I, LanesStep DEF Lanes
  <2>2. UNCHANGED run \/ Step
    BY <1>4, <2>1, Steps, Starts, <1>I
  <2>3. CASE UNCHANGED run
    <3>1. ~Import /\ ~Export /\ ~FixExport /\ ~BootPool
      BY <1>4, <2>3 DEF Import, Export, FixExport, BootPool, At
    <3> QED
      BY <1>L, <1>4, <2>3, <3>1, Touched
  <2>4. CASE Step
    <3>1. BootPool
      BY <1>4, <2>1, <2>4, Moves
    <3>2. Imported("bpool") \/ Go("last")
      BY <3>1, Zenon DEF BootPool
    <3>3. ~Go("last")
      BY <1>R, <1>4 DEF Go, RunType
    <3> QED
      BY <1>T, <3>2, <3>3 DEF Imported
  <2> QED
    BY <2>2, <2>3, <2>4
<1>5. mnt' \cup zvols' \subseteq Pools
  BY TypeStep DEF TypeOK
<1>6. Stacked' = Items(stack')
  BY DEF Stacked, Items
<1> QED
  BY <1>1, <1>2, <1>3, <1>4, <1>5, <1>6 DEF Layers

(* What becomes of the pools a command lists.                              *)
LEMMA Lists ==
  ASSUME TypeOK, Lanes, Step, run'.cmd # "none"
  PROVE  /\ Track =>
              /\ run'.stuck = run.stuck
              /\ Items(run'.pools) = Items(run.pools) \cup {run.pool}
         /\ TrackBoot =>
              /\ run'.stuck = run.stuck
              /\ Items(run'.pools) = Items(run.pools) \cup {"bpool"}
         /\ Attach =>
              /\ run'.stuck = run.stuck
              /\ Items(run'.pools) = {p \in InTree(run.pool) : pool[p] # "out"}
         /\ Export =>
              \E p \in Pools :
                /\ Items(run.pools) = {p} \cup Items(run'.pools)
                /\ \/ CanExport(p) /\ Gone(p) /\ run'.stuck = run.stuck
                   \/ UNCHANGED held /\ run'.stuck = run.stuck \cup {p}
         /\ Elsewhere => run'.stuck = {} /\ Items(run'.pools) = run.stuck
         /\ ~Track /\ ~TrackBoot /\ ~Attach /\ ~Export /\ ~Elsewhere =>
              run'.pools = run.pools /\ run'.stuck = run.stuck
<1>R. run \in RunType /\ run.pool \in Pools /\ run.pools \in Seq(Pools) /\ run.stuck \subseteq Pools
  BY Zenon DEF TypeOK, RunType
<1>I. Idle.cmd = "none"
  BY DEF Idle
<1> DEFINE Same == run'.pools = run.pools /\ run'.stuck = run.stuck
<1>U. /\ run' = Unwound => Same
      /\ \A f \in BOOLEAN : run' = [Unwound EXCEPT !.fixed = f] => Same
  <2>1. CASE Unwound = [run EXCEPT !.pc = "fix export"]
    BY <1>R, <2>1 DEF RunType
  <2>2. CASE Unwound = [run EXCEPT !.pc = "cleanup", !.ending = "exit"]
    BY <1>R, <2>2 DEF RunType
  <2>3. CASE Unwound = Idle
    <3>1. \A f \in BOOLEAN : [Unwound EXCEPT !.fixed = f].cmd = "none"
      BY <2>3 DEF Idle
    <3> QED
      BY <2>3, <3>1, <1>I
  <2> QED
    BY <2>1, <2>2, <2>3 DEF Unwound
<1> HIDE DEF Same
<1>1. Import => Same
  BY <1>R, <1>U DEF Import, Go, Exit, RunType, Same
<1>2. KsOpen => Same
  BY <1>R, <1>U DEF KsOpen, Go, Exit, RunType, Same
<1>3. KsMount => Same
  BY <1>R, <1>U DEF KsMount, Go, Exit, RunType, Same
<1>4. KsKey => Same
  BY <1>R, <1>U DEF KsKey, Exit, RunType, Same
<1>5. TrackKs => Same
  BY <1>R DEF TrackKs, RunType, Same
<1>6. Root => Same
  BY <1>R, <1>U DEF Root, Exit, RunType, Same
<1>7. BootExt4 => Same
  BY <1>R DEF BootExt4, Go, RunType, Same
<1>8. BootPool => Same
  BY <1>R DEF BootPool, Go, RunType, Same
<1>9. Last => Same
  BY <1>R DEF Last, Go, RunType, Same
<1>10. ~Leave
  BY <1>I DEF Leave, End
<1>11. CleanUp => Same
  BY <1>R DEF CleanUp, Go, RunType, Same
<1>12. KsUmount => Same
  BY <1>R DEF KsUmount, Go, AfterKs, RunType, Same
<1>13. KsClose => Same
  BY <1>R DEF KsClose, AfterKs, RunType, Same
<1>14. Exported => Same
  BY <1>R DEF Exported, Go, RunType, Same
<1>15. Again => Same
  BY <1>R DEF Again, Go, RunType, Same
<1>16. ~Cleaned
  BY <1>I DEF Cleaned, End
<1>17. Tree => Same
  BY <1>R DEF Tree, Go, RunType, Same
<1>18. ~Judge
  BY <1>I DEF Judge, End
<1>19. CleanTrees => Same
  BY <1>R DEF CleanTrees, Go, RunType, Same
<1>20. CleanKs => Same
  BY <1>R DEF CleanKs, Go, RunType, Same
<1>21. CleanClose => Same
  BY <1>R DEF CleanClose, Go, RunType, Same
<1>22. CleanInhibit => Same
  BY <1>R DEF CleanInhibit, Go, RunType, Same
<1>23. ~CleanJudge
  BY <1>I DEF CleanJudge, End
<1>24. FixInhibit => Same
  BY <1>R DEF FixInhibit, Go, RunType, Same
<1>25. FixCheck => Same
  BY <1>R, <1>U DEF FixCheck, Go, Exit, RunType, Same
<1>26. FixOff => Same
  BY <1>R, <1>U DEF FixOff, Go, Exit, RunType, Same
<1>27. FixSet => Same
  BY <1>R, <1>U DEF FixSet, Exit, RunType, Same
<1>28. FixExport => Same
  BY <1>R DEF FixExport, Go, RunType, Same
<1>29. ~FixRestore
  BY <1>I DEF FixRestore, End
<1>30. Shell => Same
  BY <1>R DEF Shell, RunType, Same
<1>31. ASSUME Track
      PROVE  /\ run'.stuck = run.stuck
             /\ Items(run'.pools) = Items(run.pools) \cup {run.pool}
  <2>1. run'.pools = Append(run.pools, run.pool) /\ run'.stuck = run.stuck
    BY <1>R, <1>31 DEF Track, RunType
  <2> QED
    BY <1>R, <2>1, ItemsAppend
<1>32. ASSUME TrackBoot
      PROVE  /\ run'.stuck = run.stuck
             /\ Items(run'.pools) = Items(run.pools) \cup {"bpool"}
  <2>1. run'.pools = Append(run.pools, "bpool") /\ run'.stuck = run.stuck
    BY <1>R, <1>32 DEF TrackBoot, RunType
  <2> QED
    BY <1>R, <2>1, ItemsAppend
<1>33. ASSUME Attach
      PROVE  /\ run'.stuck = run.stuck
             /\ Items(run'.pools) = {p \in InTree(run.pool) : pool[p] # "out"}
  <2>1. /\ run'.pools = InOrder({p \in InTree(run.pool) : pool[p] # "out"})
        /\ run'.stuck = run.stuck
    BY <1>R, <1>33, Zenon DEF Attach, RunType
  <2>2. {p \in InTree(run.pool) : pool[p] # "out"} \subseteq Pools
    BY DEF InTree
  <2> QED
    BY <2>1, <2>2, ItemsInOrder
<1>34. ASSUME Export
      PROVE  \E p \in Pools :
               /\ Items(run.pools) = {p} \cup Items(run'.pools)
               /\ \/ CanExport(p) /\ Gone(p) /\ run'.stuck = run.stuck
                  \/ UNCHANGED held /\ run'.stuck = run.stuck \cup {p}
  <2> DEFINE p == Head(run.pools)
  <2>1. p \in Pools /\ Items(run.pools) = {p} \cup Items(Tail(run.pools))
    BY <1>R, <1>34, ItemsTail DEF Export
  <2>2. \/ CanExport(p) /\ Gone(p) /\ run' = [run EXCEPT !.pools = Tail(@)]
        \/ UNCHANGED held /\ run' = [run EXCEPT !.pools = Tail(@), !.stuck = @ \cup {p}]
    BY <1>34, Zenon DEF Export
  <2>3. CASE CanExport(p) /\ Gone(p) /\ run' = [run EXCEPT !.pools = Tail(@)]
    <3>1. run'.pools = Tail(run.pools) /\ run'.stuck = run.stuck
      BY <1>R, <2>3, Zenon DEF RunType
    <3> QED
      BY <2>1, <2>3, <3>1, Zenon
  <2>4. CASE UNCHANGED held /\ run' = [run EXCEPT !.pools = Tail(@), !.stuck = @ \cup {p}]
    <3>1. run'.pools = Tail(run.pools) /\ run'.stuck = run.stuck \cup {p}
      BY <1>R, <2>4, Zenon DEF RunType
    <3> QED
      BY <2>1, <2>4, <3>1, Zenon
  <2> QED
    BY <2>2, <2>3, <2>4, Zenon
<1>35. ASSUME Elsewhere
      PROVE  run'.stuck = {} /\ Items(run'.pools) = run.stuck
  <2>1. run'.pools = InOrder(run.stuck) /\ run'.stuck = {}
    BY <1>R, <1>35, Zenon DEF Elsewhere, RunType
  <2> QED
    BY <1>R, <2>1, ItemsInOrder
<1>36. Opening => Same \/ Track \/ TrackBoot \/ Attach \/ Export \/ Elsewhere
  BY <1>1, <1>2, <1>3, <1>4, <1>5, <1>6, <1>7, <1>8, <1>9, <1>10, Zenon DEF Opening
<1>37. Closing => Same \/ Track \/ TrackBoot \/ Attach \/ Export \/ Elsewhere
  BY <1>11, <1>12, <1>13, <1>14, <1>15, <1>16, <1>17, <1>18, Zenon DEF Closing
<1>38. Cleaning => Same \/ Track \/ TrackBoot \/ Attach \/ Export \/ Elsewhere
  BY <1>19, <1>20, <1>21, <1>22, <1>23, Zenon DEF Cleaning
<1>39. Fixing => Same \/ Track \/ TrackBoot \/ Attach \/ Export \/ Elsewhere
  BY <1>24, <1>25, <1>26, <1>27, <1>28, <1>29, Zenon DEF Fixing
<1>40. Shell => Same \/ Track \/ TrackBoot \/ Attach \/ Export \/ Elsewhere
  BY <1>30, Zenon
<1>41. Same \/ Track \/ TrackBoot \/ Attach \/ Export \/ Elsewhere
  BY <1>36, <1>37, <1>38, <1>39, <1>40, Zenon DEF Step
<1> QED
  BY <1>31, <1>32, <1>33, <1>34, <1>35, <1>41, Zenon DEF Same

LEMMA LiveStep ==
  ASSUME TypeOK, Layers, Lanes, Live, [Next]_vars
  PROVE  Live'
<1> USE DEF system, held, props
<1>R. /\ run \in RunType /\ run.pool \in Keyed /\ run.pools \in Seq(Pools)
      /\ run.stuck \subseteq Pools
  BY Zenon DEF TypeOK, RunType
<1>I. Idle.cmd = "none" /\ Idle.pools = <<>> /\ Idle.stuck = {}
  BY DEF Idle
<1>E. Items(<<>>) = {}
  BY ItemsEmpty
<1>T. pool \in [Pools -> {"out", "own", "zark", "alt"}]
  BY DEF TypeOK
<1>F. UNCHANGED <<running, ext4>>
  BY Touched
<1>1. ASSUME running
      PROVE  /\ RunningKept'
             /\ run'.cmd \in {"none", "mount", "umount", "clean"}
             /\ Items(run'.pools) \cup run'.stuck \subseteq
                  {"backup"} \cup (IF ext4 THEN {"bpool"} ELSE {})
  <2>L. /\ pool["rpool"] = "own" /\ (ext4 \/ pool["bpool"] = "own")
        /\ run.cmd \in {"none", "mount", "umount", "clean"}
        /\ Items(run.pools) \cup run.stuck \subseteq
             {"backup"} \cup (IF ext4 THEN {"bpool"} ELSE {})
    BY <1>1 DEF Live, RunningKept
  <2>B. run.cmd \in {"mount", "umount"} => run.pool = "backup"
    BY DEF Lanes
  <2>1. pool'["rpool"] = "own" /\ (ext4 \/ pool'["bpool"] = "own")
    <3>1. CASE Import
      <4>1. run.pool = "backup"
        BY <2>L, <2>B, <3>1, Lane DEF Import, At
      <4> QED
        BY <1>T, <2>L, <3>1, <4>1 DEF Import, Imported
    <3>2. ~BootPool /\ ~FixExport
      BY <2>L, Lane DEF BootPool, FixExport, At
    <3>3. CASE Export
      <4>1. Head(run.pools) \in Items(run.pools)
        BY <1>R, <3>3, ItemsTail DEF Export
      <4> QED
        BY <1>T, <2>L, <3>3, <4>1 DEF Export, Gone
    <3> QED
      BY <2>L, <3>1, <3>2, <3>3, Touched
  <2>2. ~StartLocal /\ ~StartUmountLocal /\ ~StartFix
    BY <1>1, <2>L DEF StartLocal, StartUmountLocal, StartFix
  <2>3. run'.cmd \in {"none", "mount", "umount", "clean"}
    BY <2>L, <2>2, <1>I, Steps, Starts DEF Goes
  <2>4. Items(run'.pools) \cup run'.stuck \subseteq
          {"backup"} \cup (IF ext4 THEN {"bpool"} ELSE {})
    <3>1. CASE run'.cmd = "none"
      <4>1. run' = Idle
        BY <3>1, LanesStep DEF Lanes
      <4> QED
        BY <1>I, <1>E, <4>1
    <3>2. CASE UNCHANGED run
      BY <2>L, <3>2
    <3>3. CASE run'.pools = <<>> /\ run'.stuck = {}
      BY <1>E, <3>3
    <3>4. CASE run'.pools = InOrder(Zark) /\ run'.stuck = {}
      <4>1. Zark \subseteq {"backup"} \cup (IF ext4 THEN {"bpool"} ELSE {})
        BY <2>L DEF Zark
      <4>2. Items(InOrder(Zark)) = Zark
        BY ItemsInOrder DEF Zark
      <4> QED
        BY <3>4, <4>1, <4>2
    <3>5. CASE Step /\ run'.cmd # "none"
      <4>1. ~TrackBoot
        BY <2>L, Lane DEF TrackBoot, At
      <4>2. Track \/ Attach => run.pool = "backup"
        BY <2>L, <2>B, Lane DEF Track, Attach, At
      <4> QED
        BY <2>L, <3>5, <4>1, <4>2, Lists DEF InTree
    <3>6. CASE run'.pools = run.pools /\ run'.stuck = run.stuck
      BY <2>L, <3>6
    <3> QED
      BY <3>1, <3>2, <3>3, <3>4, <3>5, <3>6, <1>I, Steps, Starts
  <2> QED
    BY <1>F, <2>1, <2>3, <2>4 DEF RunningKept
<1>2. ASSUME ~running
      PROVE  (\A p \in Pools : pool'[p] # "own") /\ "live" \notin Items(stack')
  <2>L. (\A p \in Pools : pool[p] # "own") /\ "live" \notin Items(stack)
    BY <1>2 DEF Live, Stacked, Items
  <2>1. \A p \in Pools : pool'[p] # "own"
    <3>1. CASE Import
      BY <1>T, <2>L, <3>1 DEF Import, Imported
    <3>2. CASE BootPool
      BY <1>T, <2>L, <3>2 DEF BootPool, Imported
    <3>3. CASE Export
      BY <1>T, <2>L, <3>3 DEF Export, Gone
    <3>4. CASE FixExport
      BY <1>T, <2>L, <3>4 DEF FixExport, Gone
    <3> QED
      BY <2>L, <3>1, <3>2, <3>3, <3>4, Touched
  <2>2. "live" \notin Items(stack')
    <3>1. CASE KsMount
      <4>1. stack' = stack \/ stack' = Append(stack, run.pool)
        BY <3>1, Zenon DEF KsMount
      <4>2. Items(Append(stack, run.pool)) = Items(stack) \cup {run.pool}
        BY <1>R, ItemsAppend DEF TypeOK
      <4>3. run.pool # "live"
        BY <1>R
      <4> QED
        BY <2>L, <4>1, <4>2, <4>3
    <3>2. CASE KsUmount \/ CleanKs
      <4>1. stack' = stack \/ stack' = Popped(stack)
        BY <3>2 DEF KsUmount, CleanKs, Popped
      <4>2. Items(Popped(stack)) \subseteq Items(stack)
        BY ItemsPopped DEF TypeOK
      <4> QED
        BY <2>L, <4>1, <4>2
    <3> QED
      BY <2>L, <3>1, <3>2, Touched
  <2> QED
    BY <2>1, <2>2
<1>3. Stacked' = Items(stack')
  BY DEF Stacked, Items
<1> QED
  BY <1>F, <1>1, <1>2, <1>3 DEF Live

LEMMA OwedStep ==
  ASSUME TypeOK, Lanes, Owed, [Next]_vars
  PROVE  Owed'
<1> USE DEF system, held, props
<1>R. run \in RunType /\ run.pool \in Keyed
  BY Zenon DEF TypeOK, RunType
<1>T. pool \in [Pools -> {"out", "own", "zark", "alt"}]
  BY DEF TypeOK
<1> SUFFICES ASSUME run'.cmd \in {"umount", "umount local"}, run'.pc \notin {"tree", "attach"}
             PROVE  /\ \A p \in InTree(run'.pool) :
                         pool'[p] # "out" => p \in Items(run'.pools) \cup run'.stuck
                    /\ run'.pc \in {"elsewhere", "judge"} => run'.pools = <<>>
  BY DEF Owed, InTree
<1>1. run'.pc \notin {"cleanup", "fix export"}
  BY LanesStep DEF Lanes, Unmounting
<1>2. ~StartMount /\ ~StartLocal /\ ~StartUmount /\ ~StartUmountLocal /\ ~StartFix
  BY Starts
<1>3. ~StartClean
  <2>1. Idle.cmd = "none"
    BY DEF Idle
  <2> QED
    BY <2>1, Starts
<1>4. CASE UNCHANGED run /\ UNCHANGED <<pool, zvols, mapper, stack, mnt, inhibit, rmp>>
  BY <1>4 DEF Owed, InTree
<1>5. CASE Step /\ Goes
  <2>1. run.cmd \in {"umount", "umount local"} /\ run'.pool = run.pool
    BY <1>5 DEF Goes
  <2>2. ~Import /\ ~BootPool /\ ~FixExport /\ ~Track /\ ~TrackBoot
    BY <2>1, Lane DEF Import, BootPool, FixExport, Track, TrackBoot, At
  <2>3. run'.cmd # "none"
    OBVIOUS
  <2>4. CASE Attach
    <3>1. ~Export /\ ~Elsewhere
      BY <2>4 DEF Attach, Export, Elsewhere, At
    <3>2. UNCHANGED pool /\ run'.pc = "ksumount"
      BY <1>5, <2>2, <2>3, <2>4, <3>1, Touched, Moves, <1>R DEF Attach, RunType
    <3>3. Items(run'.pools) = {p \in InTree(run.pool) : pool[p] # "out"}
      BY <1>5, <2>3, <2>4, Lists
    <3> QED
      BY <2>1, <3>2, <3>3
  <2>5. CASE ~Attach
    <3>1. run.pc \notin {"tree", "attach"}
      BY <1>5, <2>3, <2>5, Moves
    <3>2. /\ \A p \in InTree(run.pool) :
               pool[p] # "out" => p \in Items(run.pools) \cup run.stuck
          /\ run.pc \in {"elsewhere", "judge"} => run.pools = <<>>
      BY <2>1, <3>1 DEF Owed
    <3>3. ASSUME run'.pc \in {"elsewhere", "judge"} PROVE run'.pools = <<>>
      <4>1. Exported \/ Again
        BY <1>5, <2>3, <3>3, Moves
      <4> QED
        BY <1>R, <4>1 DEF Exported, Again, Go, RunType
    <3>4. CASE Export
      <4>1. PICK p \in Pools :
              /\ Items(run.pools) = {p} \cup Items(run'.pools)
              /\ \/ CanExport(p) /\ Gone(p) /\ run'.stuck = run.stuck
                 \/ UNCHANGED held /\ run'.stuck = run.stuck \cup {p}
        BY <1>5, <2>3, <3>4, Lists
      <4>2. \A q \in Pools : pool'[q] # "out" => pool[q] # "out" /\ (q # p \/ p \in run'.stuck)
        BY <1>T, <4>1 DEF Gone
      <4>3. InTree(run.pool) \subseteq Pools
        BY DEF InTree
      <4> QED
        BY <2>1, <3>2, <3>3, <4>1, <4>2, <4>3
    <3>5. CASE Elsewhere
      <4>1. run.pools = <<>> /\ UNCHANGED pool
        BY <3>2, <3>5 DEF Elsewhere, At
      <4>2. run'.stuck = {} /\ Items(run'.pools) = run.stuck
        BY <1>5, <2>3, <3>5, Lists
      <4>3. Items(<<>>) = {}
        BY ItemsEmpty
      <4> QED
        BY <2>1, <3>2, <3>3, <4>1, <4>2, <4>3
    <3>6. CASE ~Export /\ ~Elsewhere
      <4>1. UNCHANGED pool
        BY <2>2, <3>6, Touched
      <4>2. run'.pools = run.pools /\ run'.stuck = run.stuck
        BY <1>5, <2>2, <2>3, <2>5, <3>6, Lists
      <4> QED
        BY <2>1, <3>2, <3>3, <4>1, <4>2
    <3> QED
      BY <3>4, <3>5, <3>6
  <2> QED
    BY <2>4, <2>5
<1> QED
  BY <1>1, <1>2, <1>3, <1>4, <1>5, Steps

LEMMA VisibleStep ==
  ASSUME TypeOK, Layers, Lanes, Visible, [Next]_vars
  PROVE  Visible'
<1> USE DEF system, held, props
<1>R. run \in RunType /\ run.pool \in Keyed
  BY Zenon DEF TypeOK, RunType
<1>I. Idle.cmd = "none"
  BY DEF Idle
<1>S. Stacked = Items(stack) /\ Stacked' = Items(stack')
  BY DEF Stacked, Items
<1>L. Lanes'
  BY LanesStep
<1>1. ASSUME run'.cmd \in {"mount", "local", "chroot"}
      PROVE  /\ run'.pc = "import" => pool'[run'.pool] = "out"
             /\ run'.pc \in {"import", "track", "open", "ksmount"} => run'.pool \notin Stacked'
             /\ run'.pc = "ksmount" => run'.pool \in mapper'
  <2>1. CASE UNCHANGED run /\ UNCHANGED <<pool, zvols, mapper, stack, mnt, inhibit, rmp>>
    BY <1>1, <1>S, <2>1 DEF Visible
  <2>2. CASE StartMount \/ StartLocal
    <3>1. UNCHANGED <<pool, stack>> /\ run'.pc = "import"
      BY <2>2, Starts DEF StartMount, StartLocal, Start
    <3>2. pool[run'.pool] = "out" /\ run'.pool \in Keyed
      <4>1. StartMount => run'.pool = "backup" /\ pool["backup"] = "out"
        BY Starts DEF StartMount
      <4>2. StartLocal => run'.pool = "rpool" /\ pool["rpool"] = "out"
        BY Starts DEF StartLocal
      <4> QED
        BY <2>2, <4>1, <4>2
    <3>3. run'.pool \notin mapper
      BY <3>2 DEF Layers, TypeOK
    <3>4. run'.pool \notin Stacked
      BY <3>2, <3>3 DEF Layers
    <3> QED
      BY <1>S, <3>1, <3>2, <3>4
  <2>3. CASE Step /\ Goes /\ run'.pc \in {"import", "track", "open", "ksmount"}
    <3>1. /\ run.cmd = run'.cmd /\ run'.pool = run.pool
          /\ \/ FixInhibit /\ run.pc = "inhibit"
             \/ Import /\ run.pc = "import" /\ run'.pc = "track"
             \/ Track /\ run.pc = "track" /\ run'.pc = "open"
             \/ KsOpen /\ run.pc = "open" /\ run'.pc = "ksmount"
      BY <1>1, <2>3, Moves DEF Goes
    <3>2. ~FixInhibit
      BY <1>1, <3>1, Lane DEF FixInhibit, At
    <3>3. run.pool \notin Stacked
      BY <1>1, <3>1, <3>2 DEF Visible
    <3>4. UNCHANGED stack
      BY <3>1, <3>2 DEF Import, Imported, Track, KsOpen
    <3>5. ASSUME run'.pc = "ksmount" PROVE run'.pool \in mapper'
      <4>1. KsOpen
        BY <3>1, <3>2, <3>5
      <4>2. run' # Unwound
        BY <1>1, <1>R, <3>1, <3>5 DEF Unwound, RunType
      <4> QED
        BY <3>1, <4>1, <4>2 DEF KsOpen, Exit
    <3> QED
      BY <1>S, <3>1, <3>2, <3>3, <3>4, <3>5
  <2>4. CASE run'.pc \in {"cleanup", "fix export"}
    BY <2>4
  <2>5. ~StartUmount /\ ~StartUmountLocal /\ ~StartFix /\ ~StartClean
    BY <1>1, <1>I, Starts
  <2> QED
    BY <1>1, <2>1, <2>2, <2>3, <2>4, <2>5, Steps
<1>2. ASSUME run'.cmd = "mount", run'.pc \in {"key", "ksumount"}
      PROVE  stack' # <<>> /\ stack'[Len(stack')] = "backup"
  <2>1. CASE UNCHANGED run /\ UNCHANGED <<pool, zvols, mapper, stack, mnt, inhibit, rmp>>
    BY <1>2, <2>1 DEF Visible
  <2>2. CASE Step /\ Goes
    <3>1. run.cmd = "mount" /\ run'.cmd # "none" /\ run.ending = "no" /\ run.pool = "backup"
      BY <1>2, <1>L, <2>2 DEF Goes, Lanes
    <3>2. KsMount \/ KsKey
      BY <1>2, <2>2, <3>1, Moves, Lane
    <3>3. CASE KsMount
      <4>1. run' # Unwound
        BY <1>2, <1>R, <3>1 DEF Unwound, RunType
      <4>2. stack' = Append(stack, "backup")
        BY <3>1, <3>3, <4>1, Zenon DEF KsMount, Exit
      <4> QED
        BY <4>2, ItemsAppend DEF TypeOK
    <3>4. CASE KsKey
      BY <3>1, <3>4 DEF KsKey, At, Visible
    <3> QED
      BY <3>2, <3>3, <3>4
  <2>3. run'.pc \notin {"cleanup", "fix export"}
    BY <1>2
  <2> QED
    BY <1>2, <1>I, <2>1, <2>2, <2>3, Steps, Starts
<1>3. ASSUME run'.cmd = "clean", run'.pc \in {"clean trees", "clean ks"}, run'.inv.ksm
      PROVE  KsMounted'
  <2>1. CASE UNCHANGED run /\ UNCHANGED <<pool, zvols, mapper, stack, mnt, inhibit, rmp>>
    BY <1>3, <2>1 DEF Visible, KsMounted
  <2>2. CASE StartClean
    <3>1. run'.inv = Inventory
      BY <1>3, <1>I, <2>2, Starts
    <3>2. KsMounted
      <4>1. Inventory.ksm
        BY <1>3, <3>1, Zenon
      <4>2. Inventory.ksm = KsMounted
        BY Zenon DEF Inventory
      <4> QED
        BY <4>1, <4>2
    <3>3. UNCHANGED stack
      BY <2>2 DEF StartClean
    <3> QED
      BY <3>2, <3>3 DEF KsMounted
  <2>3. CASE Step /\ Goes
    <3>1. run.cmd = "clean" /\ run.inv.ksm
      BY <1>3, <2>3 DEF Goes
    <3>2. CleanTrees /\ run.pc = "clean trees"
      BY <1>3, <2>3, Moves
    <3>3. KsMounted /\ UNCHANGED stack
      BY <3>1, <3>2 DEF Visible, CleanTrees, UnmountTree
    <3> QED
      BY <3>3 DEF KsMounted
  <2>4. run'.pc \notin {"cleanup", "fix export"}
    BY <1>3
  <2> QED
    BY <1>3, <1>I, <2>1, <2>2, <2>3, <2>4, Steps, Starts
<1> QED
  BY <1>1, <1>2, <1>3 DEF Visible

LEMMA AloneStep ==
  ASSUME TypeOK, Lanes, Alone, [Next]_vars
  PROVE  Alone'
<1> USE DEF system, held, props
<1>R. run \in RunType
  BY DEF TypeOK
<1>T. pool \in [Pools -> {"out", "own", "zark", "alt"}]
  BY DEF TypeOK
<1> SUFFICES ASSUME run'.cmd = "fix"
             PROVE  /\ run'.pc \in {"import", "fix check", "fix off", "fix set"} => inhibit'
                    /\ run'.pc \in {"fix check", "fix off", "fix set"} => pool'["rpool"] = "alt"
                    /\ run'.pc \in {"fix off", "fix set"} => zvols' = {} /\ rmp' = "none"
  BY DEF Alone
<1>1. CASE UNCHANGED run /\ UNCHANGED <<pool, zvols, mapper, stack, mnt, inhibit, rmp>>
  BY <1>1 DEF Alone
<1>2. CASE Step /\ Goes /\ run'.pc \in {"import", "fix check", "fix off", "fix set"}
  <2>1. /\ run.cmd = "fix" /\ run.pool = "rpool"
        /\ \/ FixInhibit /\ run'.pc = "import"
           \/ Import /\ run.pc = "import" /\ run'.pc = "fix check"
           \/ FixCheck /\ run.pc = "fix check" /\ run'.pc \in {"fix off", "fix set"}
           \/ FixOff /\ run.pc = "fix off" /\ run'.pc = "fix set"
    BY <1>2, Moves DEF Goes, Lanes
  <2>2. CASE FixInhibit /\ run'.pc = "import"
    BY <2>2 DEF FixInhibit
  <2>3. Unwound = [run EXCEPT !.pc = "fix export"] /\ Unwound.pc = "fix export"
    BY <1>R, <2>1 DEF Unwound, RunType
  <2>4. CASE Import /\ run.pc = "import" /\ run'.pc = "fix check"
    <3>1. Imported(run.pool) /\ UNCHANGED inhibit
      BY <2>3, <2>4, Zenon DEF Import, Exit
    <3> QED
      BY <1>T, <2>1, <2>4, <3>1 DEF Imported, Alone
  <2>5. CASE FixCheck /\ run.pc = "fix check" /\ run'.pc \in {"fix off", "fix set"}
    <3>1. [Unwound EXCEPT !.fixed = zvols = {}].pc = "fix export"
      BY <1>R, <2>3 DEF RunType
    <3>2. zvols = {} /\ rmp = "none"
      BY <2>3, <2>5, <3>1 DEF FixCheck, Exit
    <3>3. UNCHANGED <<zvols, rmp, inhibit, pool>>
      BY <2>5 DEF FixCheck
    <3> QED
      BY <2>1, <2>5, <3>2, <3>3 DEF Alone
  <2>6. CASE FixOff /\ run.pc = "fix off" /\ run'.pc = "fix set"
    BY <2>1, <2>6 DEF FixOff, Alone
  <2> QED
    BY <2>1, <2>2, <2>4, <2>5, <2>6
<1>3. CASE run'.pc \in {"cleanup", "fix export", "inhibit"}
  BY <1>3
<1>4. Idle.cmd = "none"
  BY DEF Idle
<1>5. CASE run'.pc \notin {"import", "fix check", "fix off", "fix set"}
  BY <1>5
<1> QED
  BY <1>1, <1>2, <1>3, <1>4, <1>5, Steps, Starts

LEMMA Closed ==
  ASSUME TypeOK, Layers, NEW p \in Pools, pool[p] = "out"
  PROVE  p \notin Zark \cup mapper \cup mnt \cup Stacked
<1>1. p \notin mnt \cup zvols /\ p \notin mapper
  BY DEF TypeOK, Layers
<1>2. p # "live"
  OBVIOUS
<1> QED
  BY <1>1, <1>2 DEF Zark, Layers

(* umount reports once it owes no pool.                                    *)
LEMMA Paid ==
  ASSUME TypeOK, Layers, Lanes, Owed, Judge, run.stuck = {}
  PROVE  \A p \in InTree(run.pool) : p \notin Zark \cup mapper \cup mnt \cup Stacked
<1>1. run.cmd \in {"umount", "umount local"} /\ run.pc = "judge"
  BY Lane DEF Judge, At
<1>2. \A p \in InTree(run.pool) : pool[p] = "out"
  BY <1>1, ItemsEmpty DEF Owed
<1>3. InTree(run.pool) \subseteq Pools
  BY DEF InTree
<1> QED
  BY <1>2, <1>3, Closed

LEMMA WholeStep ==
  ASSUME TypeOK, Layers, Lanes, Owed, BackupWhole, InsideTree, [Next]_vars
  PROVE  BackupWhole' /\ InsideTree'
<1>1. CASE Judge /\ wiped'
  <2>1. run.cmd = "umount" /\ run.stuck = {} /\ run.pool \in mnt
    BY <1>1 DEF Judge, BackupWhole
  <2>2. run.pool \in InTree(run.pool)
    BY <2>1 DEF Lanes, InTree
  <2> QED
    BY <1>1, <2>1, <2>2, Paid
<1>2. ASSUME NEW k \in Kinds, NEW readonly \in BOOLEAN PROVE Landing(k, readonly) = landed
  <2>1. ASSUME Planned(k), LayoutTarget(k, readonly) # "skipped"
        PROVE  LayoutTarget(k, readonly) = "in"
    BY <2>1 DEF Planned, LayoutTarget
  <2> QED
    BY <2>1 DEF Landing
<1>3. InsideTree'
  BY <1>2, Touched DEF InsideTree, Root
<1>4. CASE UNCHANGED wiped
  BY <1>3, <1>4, Zenon DEF BackupWhole
<1> QED
  BY <1>1, <1>3, <1>4, Touched, Zenon DEF BackupWhole

LEMMA BannerStep ==
  ASSUME TypeOK, Layers, Lanes, Live, Owed, BannerTrue, [Next]_vars
  PROVE  BannerTrue'
<1> USE DEF system, held, props
<1> DEFINE All == Zark \cup mapper \cup mnt \cup bound = {} /\ ~inhibit
           Backup == "backup" \notin Zark \cup mapper \cup mnt \cup Stacked
           Local == {"rpool", "bpool"} \cap (Zark \cup mapper \cup mnt \cup Stacked) = {}
<1>1. CASE said' = ""
  BY <1>1 DEF BannerTrue
<1>2. CASE Leave \/ FixRestore
  <2>1. said' \in {"MOUNTED", "FIXED", "NOT FIXED"}
    BY <1>2 DEF Leave, FixRestore, End
  <2> QED
    BY <2>1 DEF BannerTrue
<1>3. CASE Cleaned
  <2>1. CASE said' = "CHROOT CLOSED"
    <3>1. run.cmd \in {"local", "chroot"} /\ {"rpool", "bpool"} \cap Zark = {}
      <4>1. run.cmd \in Commands \cup {"none"} /\ run.ending \in {"no", "exit", "end"}
        BY Zenon DEF TypeOK, RunType
      <4>2. /\ run.cmd # "none" /\ run.ending = "end"
            /\ {"rpool", "bpool"} \cap Zark = {}
        BY <1>3, <2>1, <4>1 DEF Cleaned, End, At
      <4> QED
        BY <4>1, <4>2 DEF Lanes, Commands
    <3>2. ~running
      BY <3>1 DEF Live
    <3>3. pool["rpool"] = "out" /\ pool["bpool"] = "out"
      BY <3>1, <3>2 DEF Live, Zark, TypeOK
    <3>4. Local
      BY <3>3, Closed
    <3>5. UNCHANGED <<pool, mapper, mnt, stack>>
      BY <1>3 DEF Cleaned
    <3> QED
      BY <2>1, <3>4, <3>5 DEF BannerTrue, Zark, Stacked
  <2>2. CASE said' # "CHROOT CLOSED"
    <3>1. said' \in {"", "CHROOT NOT CLOSED"}
      BY <1>3, <2>2 DEF Cleaned, End
    <3> QED
      BY <3>1 DEF BannerTrue
  <2> QED
    BY <2>1, <2>2
<1>4. CASE Judge
  <2>1. run.cmd \in {"umount", "umount local"}
    BY <1>4, Lane DEF Judge, At
  <2>2. UNCHANGED <<pool, mapper, mnt, stack>>
    BY <1>4 DEF Judge
  <2>3. CASE run.stuck # {}
    <3>1. said' = "NOT UNMOUNTED"
      BY <1>4, <2>3 DEF Judge, End
    <3> QED
      BY <3>1 DEF BannerTrue
  <2>4. CASE run.stuck = {} /\ run.cmd = "umount"
    <3>1. said' = "BACKUP UNMOUNTED"
      BY <1>4, <2>4 DEF Judge, End
    <3>2. run.pool = "backup"
      BY <2>4 DEF Lanes
    <3>3. Backup
      BY <1>4, <2>4, <3>2, Paid DEF InTree
    <3> QED
      BY <2>2, <3>1, <3>3 DEF BannerTrue, Zark, Stacked
  <2>5. CASE run.stuck = {} /\ run.cmd = "umount local"
    <3>1. said' = "SYSTEM UNMOUNTED"
      BY <1>4, <2>5 DEF Judge, End
    <3>2. run.pool = "rpool"
      BY <2>5 DEF Lanes
    <3>3. Local
      BY <1>4, <2>5, <3>2, Paid DEF InTree
    <3> QED
      BY <2>2, <3>1, <3>3 DEF BannerTrue, Zark, Stacked
  <2> QED
    BY <2>1, <2>3, <2>4, <2>5
<1>5. CASE CleanJudge \/ StartClean
  <2>1. UNCHANGED <<pool, mapper, mnt, bound, inhibit>>
    BY <1>5 DEF CleanJudge, StartClean
  <2>2. CASE said' \in {"CLEANUP COMPLETE", "NOTHING LEFT"}
    <3>1. Empty
      BY <1>5, <2>2 DEF CleanJudge, StartClean, End
    <3>2. All
      BY <3>1 DEF Empty
    <3> QED
      BY <2>1, <2>2, <3>2 DEF BannerTrue, Zark
  <2>3. CASE said' \notin {"CLEANUP COMPLETE", "NOTHING LEFT"}
    <3>1. said' \in {"", "CLEANUP INCOMPLETE"}
      BY <1>5, <2>3 DEF CleanJudge, StartClean, End
    <3> QED
      BY <3>1 DEF BannerTrue
  <2> QED
    BY <2>2, <2>3
<1>6. CASE said' = said /\ said # "" /\ ~StartClean
  <2>1. run.cmd = "none"
    BY <1>6 DEF Lanes
  <2>2. ~Step /\ ~Signal /\ ~Kill
    BY <2>1, Places DEF Signal, Kill
  <2>3. ~StartMount /\ ~StartLocal /\ ~StartUmount /\ ~StartUmountLocal /\ ~StartFix
    BY <1>6 DEF StartMount, StartLocal, StartUmount, StartUmountLocal, StartFix, Start
  <2>4. Guest \/ GuestLeaves \/ UNCHANGED vars
    BY <1>6, <2>2, <2>3 DEF Next, Finished
  <2>5. UNCHANGED <<pool, mapper, mnt, stack, inhibit>>
    BY <2>4 DEF Guest, GuestLeaves, vars
  <2>6. bound' = bound \/ "backup" \in mnt
    BY <2>4 DEF Guest, GuestLeaves, vars
  <2> QED
    BY <1>6, <2>5, <2>6 DEF BannerTrue, Zark, Stacked
<1> QED
  BY <1>1, <1>2, <1>3, <1>4, <1>5, <1>6, Touched
-----------------------------------------------------------------------------
(* The invariant. *)

LEMMA MountsInit == Init => MountsInv
<1> SUFFICES ASSUME Init PROVE MountsInv
  OBVIOUS
<1>I. /\ run = Idle /\ said = "" /\ stack \in {<<>>, <<"live">>}
      /\ mnt = {} /\ bound = {} /\ mapper = {}
  BY DEF Init
<1>1. pool \in [Pools -> {"out", "own", "zark", "alt"}]
  BY DEF Init
<1>2. run \in RunType
  <2>1. <<>> \in Seq(Pools) /\ {} \in SUBSET Pools
    OBVIOUS
  <2>2. [mounts |-> {}, mapper |-> {}, ksm |-> FALSE, inhibit |-> FALSE]
          \in [mounts : SUBSET Pools, mapper : SUBSET Keyed, ksm : BOOLEAN, inhibit : BOOLEAN]
    OBVIOUS
  <2>3. /\ "none" \in Commands \cup {"none"} /\ "backup" \in Keyed
        /\ "no" \in {"no", "exit", "end"} /\ FALSE \in BOOLEAN
    OBVIOUS
  <2>4. "" \in Pcs
    BY DEF Pcs
  <2>5. Idle \in RunType
    <3> HIDE DEF Pools, Keyed
    <3> QED
      BY <2>1, <2>2, <2>3, <2>4, Zenon DEF Idle, RunType
  <2> QED
    BY <1>I, <2>5
<1>3. stack \in Seq(Keyed \cup {"live"}) /\ Items(stack) \subseteq {"live"}
  <2>1. <<>> \in Seq(Keyed \cup {"live"}) /\ <<"live">> \in Seq(Keyed \cup {"live"})
    OBVIOUS
  <2>2. Items(<<"live">>) = {"live"}
    BY DEF Items
  <2> QED
    BY <1>I, <2>1, <2>2, ItemsEmpty
<1>4. runs \in 0..MaxRuns /\ faults \in 0..MaxFaults /\ guests \in 0..MaxGuests
  <2>1. runs = 0 /\ faults = 0 /\ guests = 0
    BY DEF Init
  <2> QED
    BY <2>1, BoundsAssumption
<1>5. TypeOK
  BY <1>1, <1>2, <1>3, <1>4 DEF Init, TypeOK, Banners
<1>6. Idle.cmd = "none" /\ Idle.pc = "" /\ Idle.pools = <<>> /\ Idle.stuck = {}
  BY DEF Idle
<1>7. Layers
  BY <1>I, <1>3, <1>6 DEF Init, Layers, Stacked, Items
<1>8. Lanes /\ Owed /\ Visible /\ Alone
  BY <1>I, <1>6 DEF Lanes, Owed, Visible, Alone
<1>9. BannerTrue /\ BackupWhole /\ InsideTree
  BY <1>I DEF Init, BannerTrue, BackupWhole, InsideTree
<1>10. Live
  <2>1. running => RunningKept
    BY DEF Init, RunningKept
  <2>2. ~running => (\A p \in Pools : pool[p] # "own") /\ stack = <<>>
    BY DEF Init
  <2>3. ~running => Stacked = {}
    BY <2>2, ItemsEmpty DEF Stacked, Items
  <2>4. run.cmd = "none" /\ Items(run.pools) = {} /\ run.stuck = {}
    BY <1>I, <1>6, ItemsEmpty
  <2> QED
    BY <2>1, <2>2, <2>3, <2>4 DEF Live
<1> QED
  BY <1>5, <1>7, <1>8, <1>9, <1>10 DEF MountsInv

LEMMA MountsStep == MountsInv /\ [Next]_vars => MountsInv'
<1> SUFFICES ASSUME MountsInv, [Next]_vars PROVE MountsInv'
  OBVIOUS
<1>1. /\ TypeOK /\ Layers /\ Lanes /\ Live /\ Owed /\ Visible /\ Alone
      /\ BackupWhole /\ InsideTree /\ BannerTrue
  BY DEF MountsInv
<1>2. TypeOK' /\ Layers' /\ Lanes' /\ Live'
  BY <1>1, TypeStep, LayersStep, LanesStep, LiveStep
<1>3. Owed' /\ Visible' /\ Alone'
  BY <1>1, OwedStep, VisibleStep, AloneStep
<1>4. BackupWhole' /\ InsideTree' /\ BannerTrue'
  BY <1>1, WholeStep, BannerStep
<1> QED
  BY <1>2, <1>3, <1>4, Zenon DEF MountsInv

THEOREM MountsHold == Spec => []MountsInv
<1> QED
  BY MountsInit, MountsStep, PTL DEF Spec

(* The state of the machine is what the commands know of it.               *)
THEOREM Types == Spec => []TypeOK
<1>1. MountsInv => TypeOK
  BY DEF MountsInv
<1> QED
  BY <1>1, MountsHold, PTL

(* A banner that says everything is released is true: what clean, umount,  *)
(* umount local and chroot print is so of the pools, the mounts and the    *)
(* keystore (clean.py run, umount.py, chroot.py run).                      *)
THEOREM Banner == Spec => []BannerTrue
<1>1. MountsInv => BannerTrue
  BY DEF MountsInv
<1> QED
  BY <1>1, MountsHold, PTL
-----------------------------------------------------------------------------
(* What zark leaves alone. *)

LEMMA KeepsStep ==
  ASSUME MountsInv, [Next]_vars, run.cmd # "umount", "live" \in Stacked
  PROVE  "live" \in Stacked'
<1>1. TypeOK /\ Lanes /\ Live /\ Visible
  BY DEF MountsInv
<1>S. Stacked = Items(stack) /\ Stacked' = Items(stack')
  BY DEF Stacked, Items
<1>2. running /\ run.cmd \in {"none", "mount", "clean"}
  BY <1>1 DEF Live
<1>P. stack[Len(stack)] # "live" => "live" \in Items(Popped(stack))
  BY <1>1, <1>S, ItemsPopped DEF TypeOK
<1>3. CASE KsMount
  <2>1. run.pool \in Keyed /\ stack \in Seq(Keyed \cup {"live"})
    BY <1>1, Zenon DEF TypeOK, RunType
  <2>2. "live" \in Items(Append(stack, run.pool))
    BY <1>S, <2>1, ItemsAppend
  <2> QED
    BY <1>3, <1>S, <2>2 DEF KsMount
<1>4. CASE KsUmount
  <2>1. run.cmd = "mount" /\ run.pc = "ksumount"
    BY <1>1, <1>2, <1>4, Lane DEF KsUmount, At
  <2>2. stack[Len(stack)] = "backup"
    BY <1>1, <2>1 DEF Visible
  <2>3. stack' = stack \/ stack' = Popped(stack)
    BY <1>4 DEF KsUmount, Popped
  <2> QED
    BY <1>P, <1>S, <2>2, <2>3
<1>5. CASE CleanKs
  <2>1. run.cmd = "clean" /\ run.pc = "clean ks"
    BY <1>1, <1>5, Lane DEF CleanKs, At
  <2>2. run.inv.ksm => stack[Len(stack)] # "live"
    BY <1>1, <2>1 DEF Visible, KsMounted
  <2>3. stack' = stack \/ (run.inv.ksm /\ stack' = Popped(stack))
    BY <1>5 DEF CleanKs, Popped
  <2> QED
    BY <1>P, <1>S, <2>2, <2>3
<1> QED
  BY <1>3, <1>4, <1>5, <1>S, Touched

LEMMA FixStep ==
  ASSUME MountsInv, [Next]_vars
  PROVE  /\ rmp' # rmp => zvols = {} /\ pool["rpool"] = "alt" /\ inhibit
         /\ inherits' # inherits => rmp = "none"
<1>1. TypeOK /\ Lanes /\ Alone
  BY DEF MountsInv
<1>2. FixSet \/ FixOff => run.cmd = "fix"
  BY <1>1, Lane DEF FixSet, FixOff, At
<1>3. FixSet \/ FixOff => run.pc \in {"fix off", "fix set"}
  BY DEF FixSet, FixOff, At
<1> QED
  BY <1>1, <1>2, <1>3, Touched DEF Alone

(* Nothing zark mounts, unmounts or removes touches the running system's   *)
(* pools and keystore, the inside of a backup or the session's own files,  *)
(* and rpool's mountpoint is changed only with no zvol device there        *)
(* (mount.py, umount.py, clean.py, fix_rpool_mountpoint.py _fix).          *)
THEOREM Harmless == Spec => Unharmed
<1>1. MountsInv => RunningKept /\ BackupWhole /\ InsideTree
  BY DEF MountsInv, Live, RunningKept
<1>2. MountsInv /\ [Next]_vars =>
        [run.cmd # "umount" /\ "live" \in Stacked => "live" \in Stacked']_vars
  BY KeepsStep
<1>3. MountsInv /\ [Next]_vars =>
        [/\ rmp' # rmp => zvols = {} /\ pool["rpool"] = "alt" /\ inhibit
         /\ inherits' # inherits => rmp = "none"]_vars
  BY FixStep
<1> QED
  BY <1>1, <1>2, <1>3, MountsHold, PTL DEF Spec, Unharmed, KeepsLive, FixAlone
=============================================================================
