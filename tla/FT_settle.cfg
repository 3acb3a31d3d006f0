SPECIFICATION FairSpec
CONSTANTS
  Thread = {t1, t2}
  NoThread = NoThread
  MaxFile = 4
  MaxJob = 2
  Limit <- LimitSettle
PROPERTIES JobsFinish UploadSettles DeletionErases ListedBecomesActive
