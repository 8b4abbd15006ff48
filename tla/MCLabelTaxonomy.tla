------------------------- MODULE MCLabelTaxonomy ---------------------------
(* Instantiates LabelTaxonomy: each accessor is called once.              *)
EXTENDS LabelTaxonomy

=============================================================================
