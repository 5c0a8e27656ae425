------------------------------- MODULE Catalog -------------------------------
(***************************************************************************)
(* The models that the gateway exposes: table LlmModels, which a script    *)
(* seeds and an operator edits in SQL, and the names in ALLOWED_MODELS.    *)
(* Three use cases read them: the list, one card, and the resolution of    *)
(* the model that a request names.                                         *)
(***************************************************************************)
EXTENDS Naturals

CONSTANTS NoModel,        \* None, or a model that was not found
          Models,         \* the names that clients ask for
          ProviderModels, \* the names that Ollama knows, Models among them
          AllowedModels,  \* ALLOWED_MODELS of the settings
          SeededModel,    \* the entry of MODELS in the script
          Seeds           \* the runs of the script under way

ASSUME CatalogAssumption ==
  /\ NoModel \notin ProviderModels
  /\ Models \subseteq ProviderModels
  /\ AllowedModels \subseteq Models
  /\ SeededModel \in Models

VARIABLES llmModels,  \* llmModels[m]: the row of model m, or NoModel
          seeds,      \* seeds[s]: a run of the script
          chat        \* a request that names a model

catalogVars == <<llmModels, seeds, chat>>

ModelRow(provider, active) == [provider |-> provider, active |-> active]

ModelRows == [provider : ProviderModels, active : BOOLEAN]

-----------------------------------------------------------------------------
(* _ACTIVE                                                                 *)
Active(m) == llmModels[m] # NoModel /\ llmModels[m].active

(* Mutant: the list has the rows that are not active as well.              *)
ListAllRows == {m \in Models : llmModels[m] # NoModel}

(* list_all                                                                *)
ListAll == {m \in Models : Active(m)}

(* ListModels: an empty catalogue shows what the settings declare.         *)
ListModels == IF ListAll # {} THEN ListAll ELSE AllowedModels

(* get_by_id: the name of the model in Ollama.                             *)
GetById(m) == IF Active(m) THEN llmModels[m].provider ELSE NoModel

(* RetrieveModel: a 404 is NoModel.                                        *)
RetrieveModel(m) ==
  IF GetById(m) # NoModel THEN GetById(m)
  ELSE IF m \in AllowedModels THEN m ELSE NoModel

(* ResolveModel                                                            *)
ResolveModel(m) ==
  IF GetById(m) # NoModel THEN GetById(m)
  ELSE IF m \in AllowedModels THEN m ELSE NoModel

(* A chat, a completion or an embedding resolves its model and calls it    *)
(* later, after it has let go of its session.  The catalogue that it was   *)
(* resolved with is kept to state properties by.                           *)
AskModel ==
  /\ chat.at \in {"idle", "called", "refused"}
  /\ \E m \in Models :
       chat' = [at |-> IF ResolveModel(m) = NoModel THEN "refused" ELSE "resolved",
                model |-> m, provider |-> ResolveModel(m), catalogue |-> ListAll]
  /\ UNCHANGED <<llmModels, seeds>>

CallModel ==
  /\ chat.at = "resolved"
  /\ chat' = [chat EXCEPT !.at = "called"]
  /\ UNCHANGED <<llmModels, seeds>>

-----------------------------------------------------------------------------
(* Mutant: the script looks for the row as the gateway does.               *)
SeedFoundActive == Active(SeededModel)

SeedFound == llmModels[SeededModel] # NoModel

(* seed_models: SELECT, then INSERT and COMMIT if there was no row.        *)
SeedSelect(s) ==
  /\ seeds[s].at \in {"idle", "done", "failed"}
  /\ seeds' = [seeds EXCEPT ![s] =
       [at |-> IF SeedFound THEN "done" ELSE "inserting", overtaken |-> FALSE]]
  /\ UNCHANGED <<llmModels, chat>>

(* UQ_LlmModels_ModelId lets one row in for a name.                        *)
SeedCommit(s) ==
  /\ seeds[s].at = "inserting"
  /\ IF llmModels[SeededModel] = NoModel
     THEN /\ llmModels' = [llmModels EXCEPT ![SeededModel] = ModelRow(SeededModel, TRUE)]
          /\ seeds' = [t \in Seeds |->
               IF t = s THEN [seeds[t] EXCEPT !.at = "done"]
               ELSE [seeds[t] EXCEPT !.overtaken = TRUE]]
     ELSE /\ seeds' = [seeds EXCEPT ![s].at = "failed"]
          /\ UNCHANGED llmModels
  /\ UNCHANGED chat

(* The operator inserts, edits, deactivates or deletes a row.              *)
OperatorEdits ==
  /\ \E m \in Models, row \in ModelRows \cup {NoModel} :
       llmModels' = [llmModels EXCEPT ![m] = row]
  /\ llmModels' # llmModels
  /\ seeds' = [s \in Seeds |-> [seeds[s] EXCEPT !.overtaken =
       @ \/ llmModels'[SeededModel] # llmModels[SeededModel]]]
  /\ UNCHANGED chat

CatalogInit ==
  /\ llmModels = [m \in Models |-> NoModel]
  /\ seeds = [s \in Seeds |-> [at |-> "idle", overtaken |-> FALSE]]
  /\ chat = [at |-> "idle"]

CatalogNext ==
  \/ AskModel \/ CallModel \/ OperatorEdits
  \/ \E s \in Seeds : SeedSelect(s) \/ SeedCommit(s)

CatalogSpec == CatalogInit /\ [][CatalogNext]_catalogVars

-----------------------------------------------------------------------------
(* Properties                                                              *)

(* The three use cases agree: what is listed has a card and can be asked   *)
(* for, whatever the table and the settings say.                           *)
ListedIsServed ==
  \A m \in ListModels : RetrieveModel(m) # NoModel /\ ResolveModel(m) # NoModel

(* Seeding again does no harm: the script fails on its INSERT only if      *)
(* someone has changed the row of that model since it looked: an operator, *)
(* or another run of the script.                                           *)
SeedingIsRepeatable ==
  \A s \in Seeds : seeds[s].at = "failed" => seeds[s].overtaken

(* What resolve_model.py:3-5 says: ALLOWED_MODELS counts while the         *)
(* catalogue is empty, and any other name is refused.  The code asks the   *)
(* setting whenever a name has no active row, and so calls a model that    *)
(* was deactivated, or never had a row, next to a catalogue that has some. *)
AllowedOnlyWhileEmpty ==
  chat.at = "called" => chat.model \in chat.catalogue \/ chat.catalogue = {}
=============================================================================
