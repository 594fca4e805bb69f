SPECIFICATION Spec

CONSTANTS
  s1 = s1
  s2 = s2
  d1 = d1
  d2 = d2
  m1 = m1
  m2 = m2
  raw = raw
  data1 = data1
  data2 = data2
  desc1 = desc1
  desc2 = desc2
  report1 = report1
  report2 = report2
  job1 = job1
  job2 = job2
  ingest1 = ingest1
  ingest2 = ingest2
  ingest3 = ingest3
  build1 = build1
  publish1 = publish1
  publish2 = publish2

CONSTANTS
  Snapshots = {s1, s2}
  Datasets = {d1}
  Runs = {}
  SourceAddresses = {raw, data1}
  DescriptorAddresses = {}
  ReportAddresses = {}
  Ingesters = {ingest1, ingest2}
  Builders = {build1}
  ModelPublishers = {}
  Cleaners = {cleaner1, cleaner2}
  Reporters = {}
  Jobs = {job1, job2}
  DeletionRequests = {{s1}, {d1}}
  RequeueRequests = {raw}
  Preloaded = {}
  Faults = TRUE
  LatePuts = TRUE
  LateDeletes = FALSE
  Free = free
  Files <- MCFiles
  Inputs <- MCInputs
  Target <- MCTarget
  JobOf <- MCJobOf

CHECK_DEADLOCK FALSE
INVARIANTS
  TypeOK
  LiveHaveBytes
  LiveLineage
  WithdrawnLeaveTombstones
PROPERTIES
  NoResurrection
  GraceHonoured
  KeepsPromise
