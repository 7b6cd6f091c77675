--------------------------- MODULE MCAgentLibrary ---------------------------
(* Model-checking instance of AgentLibrary: two agents, two files in the      *)
(* sandbox and one outside, two spellings, and the calls that tell the        *)
(* guards apart; files of up to eight lines to chunk; repositories of up to   *)
(* seven files and four of the types of the classifier's table.               *)
EXTENDS AgentLibrary

CONSTANTS a1, a2, in1, in2, outer, n1, n2, good, bad

Two == {a1, a2}
TheFiles == {in1, in2, outer}
TheSandbox == {in1, in2}
AtFirst == {in1, outer}
TheNames == {n1, n2}
ThePieces == {good, bad}
Kinds == [p \in ThePieces |-> IF p = good THEN "safe" ELSE "unsafe"]
Edit(n, p) == [name |-> n, piece |-> p, wellFormed |-> TRUE]
Garbled == [Edit(n1, good) EXCEPT !.wellFormed = FALSE]
Patch(edits) == [tool |-> "apply_patch", edits |-> edits]
Other(field, value) == [tool |-> "other", view |-> [EmptyView EXCEPT ![field] = value]]
TheCalls ==
    { [tool |-> "write_file", name |-> n1, piece |-> p] : p \in ThePieces } \cup
    { Patch(<<Edit(n1, good), Edit(n2, bad)>>), Patch(<<Edit(n2, bad), Edit(n2, good)>>),
      Patch(<<Edit(n1, good), Garbled>>) } \cup
    { Other("dest", "unlisted"), Other("intent", "dangerous"), Other("script", "unsafe"),
      Other("files", "outside"), Other("files", "garbled"), Other("memory", "poisoned"),
      Other("cost", "over"), Other("cost", "garbled") }
TheFlags == { {"codegen"}, Flags }
Agents == Permutations(Two)

Sig(type, required, anyOf, content, dirs, infra, threshold) ==
    [codebase_type |-> type, files_required |-> required, files_any_of |-> anyOf,
     content_patterns |-> content, dir_patterns |-> dirs, infra_markers |-> infra,
     confidence_threshold |-> threshold]

FourTypes ==
    << Sig("python_serverless", {}, {".py", "requirements.txt"}, {"boto3", "lambda_handler"},
           {"functions"}, {"aws_lambda"}, 35),
       Sig("node_serverless", {}, {".js", "package.json"}, {"aws-sdk", "exports.handler"},
           {"functions", "src"}, {"aws_lambda"}, 35),
       Sig("ecs_docker", {"Dockerfile"}, {"docker-compose"}, {"FROM"}, {},
           {"aws_ecs_service"}, 50),
       Sig("iac_terraform", {}, {".tf"}, {"provider aws", "aws_"}, {"infra"}, {}, 20) >>

File(name, ignored, signals) == [name |-> name, ignored |-> ignored, signals |-> signals]

SevenFiles ==
    { File("app.py", FALSE, {".py", "boto3", "lambda_handler", "functions"}),
      File("index.js", FALSE, {".js", "aws-sdk", "exports.handler", "functions"}),
      File("vendored.js", TRUE, {".js", "aws-sdk", "exports.handler", "src"}),
      File("Dockerfile", FALSE, {}),
      File("docker-compose.yml", FALSE, {"docker-compose"}),
      File("README.md", FALSE, {"FROM"}),
      File("main.tf", FALSE, {".tf", "provider aws", "aws_", "infra", "aws_lambda",
                              "aws_ecs_service"}) }
=============================================================================
