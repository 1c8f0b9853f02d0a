\* Two replicas share the checkpoint; public events for two topics, private
\* ones and one that cannot be translated.
CONSTANTS
    t1 = t1  t2 = t2  k1 = k1  a = a  b = b  priv = priv  bad = bad
    Private = Private  Poison = Poison
    Streams = {s1}
    Payloads = {a, b, priv, bad}
    Replicas = {r1, r2}
    Topics = {t1, t2}
    Keys = {k1}
    TopicOf <- MCTopicOf
    KeyOf <- OneKey
    MaxBatch = 2
    MaxSeq = 3
    BatchSize = 2
    MaxFaults = 1
SPECIFICATION FairSpec
INVARIANTS AtLeastOnce KeyOrder
PROPERTY EventuallyPublished
