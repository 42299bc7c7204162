------------------------------ MODULE MCPolicy ------------------------------
(* User data with a cache and a volume in a home, and an application's     *)
(* tree with a child and a volume.                                         *)
EXTENDS Policy

Home == "rpool/USERDATA/home"
Cache == "rpool/USERDATA/home/cache"
Disk == "rpool/USERDATA/home/disk"
Apps == "rpool/apps"
Db == "rpool/apps/db"
Img == "rpool/apps/img"

SomeOthers == {Home, Cache, Disk, Apps, Db, Img}
SomeFirst == {Home, Apps}
SomeZvols == {Disk, Img}

Parent ==
  [d \in Names \ Tops |->
     CASE d \in {Root, Userdata, Apps} -> Rpool
       [] d \in {Be1, Be2} -> Root
       [] d = BootCopy(Be1) -> Be1
       [] d = BootCopy(Be2) -> Be2
       [] d = Home -> Userdata
       [] d \in {Cache, Disk} -> Home
       [] d \in {Db, Img} -> Apps
       [] d = BpoolBoot -> Bpool]
Path[d \in Names] == {d} \cup IF d \in Tops THEN {} ELSE Path[Parent[d]]
SomeInside == {p \in Names \X Names : p[1] # p[2] /\ p[2] \in Path[p[1]]}
=============================================================================
