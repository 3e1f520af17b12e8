-------------------------------- MODULE MC_Mnp --------------------------------
(* A two-digit national number (10 in the code); every accepted form of   *)
(* spec 6, each also with one separator inserted anywhere, and every      *)
(* string of up to three symbols.                                          *)
EXTENDS MnpRecord

MCDigits == {"0", "2", "3", "4", "8"}

MCForms == {p \o d : p \in AcceptedPrefixes, d \in [1..NationalLen -> MCDigits]}

MCInputs ==
    MCForms
      \cup UNION {{InsertAt(f, i, s) : i \in 1..Len(f), s \in Separators} : f \in MCForms}
      \cup SeqOf({"+", "0", "2", "3", "4", "-"}, 3)
=============================================================================
