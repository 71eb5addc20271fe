SPECIFICATION FairSpec
CONSTANTS
  s1 = s1
  s2 = s2
  webm = webm
  mp4 = mp4
  Sessions = {s1}
  Keys = {webm, mp4}
  AttemptCap = 2
  MaxStarts = 2
  MaxFaults = 1
PROPERTIES OutboxSettles RetentionHonoured
