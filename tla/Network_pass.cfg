SPECIFICATION MCSpec
CONSTANTS
  Versions = {1, 2}
  Size <- MCSize
  FlashSize = 2
  MAX_BLOCK_RETRIES = 1
  MAX_END_REQ_RETRIES = 1
  HourMins = 1
  DelayMins = 1
  EndAnswers <- MCEndAnswers
  MaxAnswers = 2
  c1 = c1
  c2 = c2
  c3 = c3
  gNWK_MAX_BINDING_ENTRIES = 2
  gMAX_BINDING_CLUSTER_IDS = 2
  Endpoints = {1}
  DeviceDsts <- MCDeviceDsts
  Groups = {1}
  Clusters = {c1, c2, c3}
INVARIANTS ImageWhole
PROPERTIES DownloadKept DownloadEnds ImplementsBindings
