------------------------------- MODULE MCDriver -------------------------------
(* Driver with the command lines a user of the suite would type.           *)
EXTENDS Driver

MCPassChoices == {{}, {"--base-url"}, {"--base-url", "--iterations"}, {"--base-url", "--create"},
                  {"--prefix"}, {"--prefix", "--files"}, {"--prefix", "--skip-jvm"},
                  {"--base-url", "--json"}}
=============================================================================
