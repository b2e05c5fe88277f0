SPECIFICATION Spec
CONSTANTS
    Corpus <- MCCorpus
    Instances <- MCInstances
    Levels = {"BACKWARD", "FORWARD_TRANSITIVE"}
    MaxLive = 3
INVARIANTS JsonReadable  AvroReadable MatchingIsMaximum
