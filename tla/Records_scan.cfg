CONSTANTS
  Areas = {"prompts"}
  Writers = {w1, w2}
  Artifacts = {doc}
  Contents = {x, y}
  MaxId = 4
  Conns = {n1, n2}
  Keys = {k1, k2}
  Values = {v1, v2}
  NoValue = NoValue
  MaxLog = 3
  EventIds = {e1, e2}
  Consumers = {c1, c2, c3}
  Users = {u1, u2}
  Texts = {a, b, c}
  MaxEdits = 1
  Risks <- GRisks
  Mitigating <- GMitigating
  Reviewers = {r1, r2}
  MaxReviews = 2
  Seeders = {get, agent}
  Items <- GItems
  Script <- GScript
  Kind <- GKind
  Meeting <- GMeeting
  Curated <- GCurated
  Relates <- GRelates
  SeededAt = 7
  MaxSeedings = 2
SPECIFICATION MCSpec
CHECK_DEADLOCK FALSE
INVARIANT EditsAwaitReview
