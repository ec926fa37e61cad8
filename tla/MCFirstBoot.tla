---------------------------- MODULE MCFirstBoot ----------------------------
(* Boards for FirstBoot: the initrd, findmnt and the names only where they matter. *)
EXTENDS FirstBoot

MCBoards ==
  {b \in BoardType : /\ b.root = "nfs" => b.present = {}
                     /\ b.root # "mmc" => ~ b.initrd
                     /\ b.root = "nand" => b.growfs /\ "data" \notin b.present
                     /\ ~ b.growfs /\ b.root # "nfs" => b.findmnt
                     /\ b.findmnt \/ b.root # "mmc" => b.named
                     /\ b.root # "nand" \/ "user" \notin b.present => b.userfs}
=============================================================================
