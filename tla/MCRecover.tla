----------------------------- MODULE MCRecover -----------------------------
(* Drives that tell the cases of Recover apart. *)
EXTENDS Recover

Whole == [r \in Rows |-> IF r = "copy" THEN "gone" ELSE "point"]

Plain == [rec |-> "bpool", marked |-> FALSE, held |-> Whole,
          monthly |-> {"be", "data", "boot"}, excluded |-> {},
          unsnapped |-> {},
          keystore |-> TRUE, lacking |-> FALSE, size |-> "fits"]

(* An ext4 system: its /boot is a dataset of rpool, and there is no bpool. *)
Ext4 == [Plain EXCEPT !.rec = "ext4", !.marked = TRUE,
                      !.held["copy"] = "point", !.held["boot"] = "gone",
                      !.monthly = {"copy"}, !.excluded = {"tmp"},
                      !.unsnapped = {"var"}]

SomeDrives == {
    Plain,
    [Plain EXCEPT !.size = "bases", !.excluded = {"tmp"}],
    [Plain EXCEPT !.rec = "none", !.held["boot"] = "gone", !.held["data"] = "gone"],
    [Plain EXCEPT !.keystore = FALSE],
    [Plain EXCEPT !.size = "big"],
    [Plain EXCEPT !.lacking = TRUE],
    [Plain EXCEPT !.rec = "bad"],
    Ext4,
    [Ext4 EXCEPT !.held["copy"] = "old", !.held["var"] = "old"],
    [Ext4 EXCEPT !.held["copy"] = "gone"],
    [Ext4 EXCEPT !.rec = "none"]}
=============================================================================
