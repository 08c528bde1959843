----------------------------- MODULE Catalogue ------------------------------
(***************************************************************************)
(* The catalogue: the replicas that refresh it (CatalogRefresh), for which *)
(* a document is only the content it becomes, and what a document becomes  *)
(* (CatalogData).  The two share no state; a configuration without         *)
(* replicas is the reading of documents alone.                             *)
(***************************************************************************)
EXTENDS CatalogRefresh, CatalogData

allVars == <<vars, import>>
Alone == conf.replicas = {}

CatalogueInit ==
  /\ Init
  /\ IF Alone THEN \E d \in Samples : FirstImport(d) ELSE import = Nothing

CatalogueNext ==
  \/ Next /\ UNCHANGED import
  \/ Alone /\ (\E d \in Refreshes \cup {import.doc} : Import(d)) /\ UNCHANGED vars

CatalogueSpec == CatalogueInit /\ [][CatalogueNext]_allVars /\ Fairness
=============================================================================
