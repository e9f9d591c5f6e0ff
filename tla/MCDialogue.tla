----------------------------- MODULE MCDialogue -----------------------------
(***************************************************************************)
(* Three catalogues: the care of a device (cleaning, or a repair), the     *)
(* installation of one that may be bought, and both.                       *)
(***************************************************************************)
EXTENDS Dialogue, TLC

CONSTANTS cleaning, repair, installing, monday, noon, morning, home, easy, hard, low, brand,
          device, some, noFact

CareServices == {cleaning}
CareKind == (cleaning :> "maintenance")
CareAsks == (cleaning :> {"quantity", "access", "address", "limit"})
CareContents ==
    [quantity |-> {low}, access |-> {easy}, address |-> {home}, model |-> {brand},
     room |-> {}, taste |-> {}, space |-> {}, recommended |-> {}, height |-> {},
     tubing |-> {}, hours |-> {noon}, gate |-> {some}, limit |-> {noon},
     daypart |-> {morning}, attendeeName |-> {some}, phone |-> {}]

InstallServices == {installing}
InstallKind == (installing :> "installation")
InstallAsks == (installing :> {"address", "tubing"})
InstallContents ==
    [quantity |-> {}, access |-> {}, address |-> {home}, model |-> {brand},
     room |-> {some}, taste |-> {some}, space |-> {some}, recommended |-> {device},
     height |-> {low}, tubing |-> {low}, hours |-> {noon}, gate |-> {some}, limit |-> {},
     daypart |-> {}, attendeeName |-> {}, phone |-> {}]

RepairServices == {repair}
RepairKind == (repair :> "diagnostics")
RepairAsks == (repair :> {"quantity", "tubing"})
RepairContents ==
    [quantity |-> {low, hard}, access |-> {}, address |-> {}, model |-> {brand},
     room |-> {}, taste |-> {}, space |-> {}, recommended |-> {}, height |-> {},
     tubing |-> {low}, hours |-> {}, gate |-> {}, limit |-> {},
     daypart |-> {morning}, attendeeName |-> {some}, phone |-> {some}]
=============================================================================
