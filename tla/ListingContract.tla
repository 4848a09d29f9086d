--------------------------- MODULE ListingContract ---------------------------
(***************************************************************************)
(* What an investor is promised about a property: it is announced when it  *)
(* is published, once and with a cover image; from then on it stays        *)
(* listed; slots are sold while it is listed, and never more than there    *)
(* are; the terms are those of the first sale; a property in which         *)
(* somebody holds slots is not removed.                                    *)
(***************************************************************************)
EXTENDS Naturals

CONSTANT Units   \* the numbers of slots a property may have

VARIABLES
    stage,       \* "none", "draft", "listed" or "removed"
    hasCover,
    announced,   \* how often the publication was announced
    units,       \* the slots of the property
    sold,        \* the slots the property counts as sold
    held         \* the slots investors hold

cvars == <<stage, hasCover, announced, units, sold, held>>

ContractInit == /\ stage = "none"
                /\ hasCover = FALSE
                /\ announced = 0
                /\ units = 0
                /\ sold = 0
                /\ held = 0

Draw(n) == /\ stage = "none"
           /\ stage' = "draft"
           /\ units' = n
           /\ UNCHANGED <<hasCover, announced, sold, held>>

Revise(n) == /\ stage \in {"draft", "listed"}
             /\ sold = 0
             /\ units' = n
             /\ UNCHANGED <<stage, hasCover, announced, sold, held>>

GainCover == /\ stage \in {"draft", "listed"}
             /\ hasCover' = TRUE
             /\ UNCHANGED <<stage, announced, units, sold, held>>

Publish == /\ stage = "draft"
           /\ hasCover
           /\ stage' = "listed"
           /\ announced' = announced + 1
           /\ UNCHANGED <<hasCover, units, sold, held>>

Sell(n) == /\ stage = "listed"
           /\ sold + n <= units
           /\ sold' = sold + n
           /\ held' = held + n
           /\ UNCHANGED <<stage, hasCover, announced, units>>

Remove == /\ stage \in {"draft", "listed"}
          /\ sold = 0
          /\ stage' = "removed"
          /\ UNCHANGED <<hasCover, announced, units, sold, held>>

ContractNext == \/ \E n \in Units : Draw(n) \/ Revise(n) \/ Sell(n)
                \/ GainCover
                \/ Publish
                \/ Remove

ContractSpec == ContractInit /\ [][ContractNext]_cvars
=============================================================================
