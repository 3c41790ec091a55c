----------------------------- MODULE LLMContract -----------------------------
(***************************************************************************)
(* What the pipeline may rely on when it awaits the first pass of an LLM    *)
(* client, analyse_async_chunked (shared/llm/base.py): the tuple            *)
(* (raw_findings, partial_files) or one of the two exceptions the pipeline  *)
(* handles.  ChunkedAnalysis shows that both clients keep to it and         *)
(* ScanPipeline assumes no more.                                            *)
(*                                                                         *)
(* Findings are not here: "analysed" is the set of files whose content went *)
(* into an answer the client parsed and returned.                           *)
(***************************************************************************)
EXTENDS Naturals

Raised(kind) == [kind |-> kind, analysed |-> {}, partial |-> {}]

\* A returned tuple.  The two sets need not cover F: of a chunk that was
\* halved, the half that failed alone is in neither.  But a call that read
\* nothing at all says so of every file.
Returned(F) == {o \in [kind : {"ok"}, analysed : SUBSET F, partial : SUBSET F] :
                  /\ o.analysed \cap o.partial = {}
                  /\ o.analysed = {} => o.partial = F}

AnalysisOutcomes(F) == Returned(F) \cup {Raised("timeout"), Raised("unavailable")}
==============================================================================
