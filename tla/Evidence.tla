------------------------------ MODULE Evidence ------------------------------
(***************************************************************************)
(* What a model package has to prove: the trust gate of a packaging        *)
(* (validate_package_trust), the model card it writes                      *)
(* (build_model_card_data, trust.py) and the checks of that card           *)
(* (validate_model_card, model_card.py), which registration repeats.       *)
(*                                                                         *)
(* A check that compares texts or numbers is a field that says how it      *)
(* turns out.  Left out: the checks that a card of build_model_card_data   *)
(* passes whatever the configuration says (sections and fields that are    *)
(* there, the version, precision and format taken from the artifact name,  *)
(* limitations that are not empty, the path and digest of the config).     *)
(***************************************************************************)

\* What the configuration and the stage reports of an experiment say.
Reports ==
    [profile       : {"production", "smoke"},                 \* package.profile
     trained       : BOOLEAN,                                 \* completed, by an external command
     checkpoint    : BOOLEAN,                                 \* with its digest
     exported      : BOOLEAN,                                 \* completed
     onnxSource    : {"external_command", "synthetic"},
     evaluated     : BOOLEAN,                                 \* completed
     metricsSource : {"measured", "placeholder"},
     thresholds    : {"none", "met", "missed"},               \* package.metric_thresholds
     examples      : BOOLEAN,                                 \* package.examples_dir is there
     limitations   : {"none", "fill in", "real"},             \* package.limitations
     manifests     : BOOLEAN,                                 \* three valid dataset manifests
     experiment    : BOOLEAN,                                 \* experiment.id is given
     revision      : BOOLEAN,                                 \* GIT_COMMIT or git rev-parse
     datasets      : BOOLEAN,                                 \* not the placeholder ids
     shape         : BOOLEAN,                                 \* model.input_size is positive
     layout        : BOOLEAN,                                 \* input.layout is one of the two
     dtype         : BOOLEAN,                                 \* input.dtype is one of the four
     batch         : BOOLEAN,                                 \* max_batch_size, if any, is positive
     configured    : {"one", "another"},                      \* input shape and dtype, by the configuration
     input         : {"one", "another"}]                      \* and those of the ONNX file

\* The checks that do not hold.
Missing(checks) == {i \in DOMAIN checks : ~checks[i]}

\* The issues of validate_package_trust.
GateIssues(e) ==
    IF e.profile = "smoke" THEN {}
    ELSE Missing([training |-> e.trained,
                  checkpoint |-> e.checkpoint,
                  onnx_source |-> e.onnxSource = "external_command",
                  export |-> e.exported,
                  evaluation |-> e.evaluated,
                  metrics_source |-> e.metricsSource = "measured",
                  thresholds |-> e.thresholds = "met",
                  examples |-> e.examples,
                  limitations |-> e.limitations = "real",
                  manifests |-> e.manifests])

\* build_model_card_data: limitations that are missing become the text for smoke tests.
CardOf(e) ==
    [profile       |-> e.profile,
     experiment    |-> e.experiment,
     revision      |-> e.revision,
     checkpoint    |-> e.checkpoint,
     onnxSource    |-> e.onnxSource,
     metricsSource |-> e.metricsSource,
     thresholds    |-> e.thresholds,
     datasets      |-> e.datasets,
     shape         |-> e.shape,
     layout        |-> e.layout,
     dtype         |-> e.dtype,
     batch         |-> e.batch,
     limitations   |-> IF e.limitations = "none" THEN "smoke text" ELSE e.limitations,
     input         |-> e.configured]

\* The issues of validate_model_card without and with strict_provenance.
CardIssues(card) ==
    Missing([metric_below_threshold |-> card.thresholds # "missed",
             invalid_shape |-> card.shape,
             invalid_layout |-> card.layout,
             invalid_dtype |-> card.dtype,
             invalid_max_batch_size |-> card.batch])

StrictIssues(card) ==
    CardIssues(card) \cup
    Missing([untrusted_profile |-> card.profile = "production",
             missing_experiment_id |-> card.experiment,
             missing_code_revision |-> card.revision,
             missing_checkpoint_provenance |-> card.checkpoint,
             untrusted_onnx_source |-> card.onnxSource = "external_command",
             untrusted_metrics_source |-> card.metricsSource = "measured",
             missing_metric_thresholds |-> card.thresholds # "none",
             placeholder_dataset |-> card.datasets,
             placeholder_limitations |-> card.limitations # "fill in"])

\* What the gate does not look at and the card has to show.
LeftToTheCard(e) ==
    Missing([missing_experiment_id |-> e.experiment,
             missing_code_revision |-> e.revision,
             placeholder_dataset |-> e.datasets,
             invalid_shape |-> e.shape,
             invalid_layout |-> e.layout,
             invalid_dtype |-> e.dtype,
             invalid_max_batch_size |-> e.batch])
=============================================================================
